---- MODULE Spec2Model ----
(***************************************************************************)
(* State-machine model of the ferelix media server core: the library       *)
(* scanner running as a scheduler job under the job registry               *)
(* (services/scanner.py, services/jobs.py) and the FFmpeg transcoding      *)
(* orchestrator (services/transcoder.py, routers/v1/streaming.py).         *)
(***************************************************************************)
EXTENDS Integers, Sequences, FiniteSets, TLC

(***************************************************************************)
(* Bounds of the model.                                                    *)
(***************************************************************************)
\* how many times the scan job id is submitted
MaxRuns == 2
\* how many changes the environment makes to the library tree
MaxEnv == 1

(***************************************************************************)
(* Encodings of Python's None.                                             *)
(***************************************************************************)
\* a datetime column/field that is None (the clock starts at 1)
NULL == 0
\* an int | None progress field that is None
NoInt == -1

\* scan_library_path commits every batch_size files
batch_size == 10

(***************************************************************************)
(* Paths.  A path is the sequence of the pieces of its string, so that     *)
(* str.startswith is a prefix test on sequences; the last piece of a file  *)
(* path is its suffix (Path.suffix).                                       *)
(***************************************************************************)
LibRoot == <<"m">>
SubDir == <<"m", "/", "d">>
A1 == <<"m", "/", "a", ".mp4">>
B1 == <<"m", "/", "d", "/", "b", ".MKV">>
T1 == <<"m", "/", "c", ".txt">>
X1 == <<"m", "2", "/", "x", ".mp4">>

\* the files that may exist in the library tree on disk
DiskPaths == {A1, B1, T1}
\* the file paths that may have a MediaFile row
DbPaths == {A1, B1, X1}

VIDEO_EXTENSIONS == {".mp4", ".mkv", ".avi", ".mov", ".webm", ".m4v", ".flv", ".wmv"}

\* str.lower() on the suffixes of the model
Lower(s) ==
    CASE s = ".MKV" -> ".mkv"
      [] s = ".MP4" -> ".mp4"
      [] s = ".TXT" -> ".txt"
      [] OTHER -> s

\* Path.suffix
Suffix(p) == p[Len(p)]

\* the directory a file path lies in (root of the os.walk triple)
Parent(p) == SubSeq(p, 1, Len(p) - 3)

\* str.startswith
StartsWith(p, q) == Len(q) <= Len(p) /\ SubSeq(p, 1, Len(q)) = q

\* p lies inside directory r
Under(p, r) == StartsWith(p, r \o <<"/">>)

\* the sub-directories os.walk finds in a directory of the tree
Subdirs(d) == IF d = LibRoot THEN <<SubDir>> ELSE <<>>

RECURSIVE SetToSeq(_)
SetToSeq(S) ==
    IF S = {} THEN <<>>
    ELSE LET x == CHOOSE y \in S : \A z \in S : Len(y) <= Len(z)
         IN  <<x>> \o SetToSeq(S \ {x})

(***************************************************************************)
(* Job ids.                                                                *)
(***************************************************************************)
ScanJob == "scan_library_1_100"
JOB_REGISTRY == {"library_scanner", "database_maintenance"}
AllJobIds == JOB_REGISTRY \cup {ScanJob}
\* the job ids the admin asks to cancel: the scan job and a recurring job
CancelTargets == {ScanJob, "library_scanner"}

VARIABLES
    clock,        \* datetime.now(UTC)
    root_state,   \* the library root on disk: "dir", "missing" or "notdir"
    disk,         \* the files present in the tree while the root is a directory
    env_changes,  \* changes the environment has made
    db,           \* committed MediaFile rows, by file_path
    sess,         \* the scan's AsyncSession: the rows as the session sees them
    scan,         \* the locals of scan_library_path and its position
    job_states,   \* _JOB_STATES
    history,      \* _JOB_EXECUTION_HISTORY
    sched,        \* the scheduler's view of each job: "none", "scheduled", "running"
    cancel_resp,  \* the last answer of the dashboard's cancel endpoint
    runs          \* submissions of the scan job so far

scanVars == <<clock, root_state, disk, env_changes, db, sess, scan,
              job_states, history, sched, cancel_resp, runs>>

(***************************************************************************)
(* The transcoding orchestrator's state: the TranscodingJob table, the      *)
(* session directories under temp_dir, the encoder processes, the          *)
(* transcoder's _active_jobs and the position of each coroutine.           *)
(***************************************************************************)
TJobIds == {"j1"}

VARIABLES
    tclock,       \* datetime.now(UTC) in hours, as the transcoder reads it
    tjobs,        \* TranscodingJob rows, by id
    dirs,         \* job ids whose temp_dir / job_id directory exists
    proc,         \* the encoder process spawned for each job id
    spawned,      \* encoder processes created for each job id so far
    active_jobs,  \* keys of FFmpegTranscoder._active_jobs
    start_pc,     \* position of the start handler of each job
    mon_pc,       \* position of each job's _monitor_progress task
    stop_pc,      \* position of the stop handler of each job
    q_sent,       \* stop_job found the encoder alive and wrote q to its stdin
    cleanup_runs, \* completed cleanup_transcode_files runs
    playlist      \* the jobs whose playlist file exists in their directory

txVars == <<tclock, tjobs, dirs, proc, spawned, active_jobs,
            start_pc, mon_pc, stop_pc, q_sent, cleanup_runs, playlist>>

(***************************************************************************)
(* State of the maintenance job cleanup_deleted_media: the MediaFile table *)
(* in days, the files that own track records, and what the last call       *)
(* returned.                                                               *)
(***************************************************************************)
VARIABLES
    today,        \* datetime.now(UTC), in days
    media,        \* MediaFile rows by file_path
    tracks,       \* the file_paths whose MediaFile owns track records
    purge         \* the last call of cleanup_deleted_media

mediaVars == <<today, media, tracks, purge>>

(***************************************************************************)
(* State of the requests for a one-off library scan.                       *)
(***************************************************************************)
VARIABLES
    now_s,        \* int(datetime.now(UTC).timestamp()), the wall-clock second
    job_store,    \* ids of the jobs in the scheduler's job store
    req_states,   \* ids that have a JobState in the registry
    issued        \* the job ids returned to the requests, in order

reqVars == <<now_s, job_store, req_states, issued>>

(***************************************************************************)
(* State of the library administration: the Library table and the          *)
(* MediaFile rows the scans of these libraries leave.                      *)
(***************************************************************************)
VARIABLES
    libraries,    \* Library rows by id
    mediafiles,   \* MediaFile rows by file_path
    lib_disk,     \* the video files on disk
    lib_scans     \* the scan_library_path calls in progress, by scan job

libVars == <<libraries, mediafiles, lib_disk, lib_scans>>

(***************************************************************************)
(* State of one playback decision: the arguments of a call of              *)
(* StreamBuilder.build_stream_info and the StreamInfo it returns.          *)
(***************************************************************************)
VARIABLES
    sb_media,     \* the MediaFile: file_extension, first video/audio track
    sb_profile,   \* the DeviceProfile the StreamBuilder was built with
    sb_options,   \* enable_* flags and requested_resolution
    sb_info,      \* the returned StreamInfo, <<>> before the call
    vr_track,     \* a VideoTrack whose VideoRange a condition asks for
    vr_value      \* the outcome of that evaluation, <<>> before it

sbVars == <<sb_media, sb_profile, sb_options, sb_info, vr_track, vr_value>>

(***************************************************************************)
(* State of the job execution history kept by services/jobs.py.            *)
(***************************************************************************)
VARIABLES
    job_execution_history,   \* the deque _JOB_EXECUTION_HISTORY
    submitted_events,        \* how many submitted events were handled
    history_view             \* what the last get_job_history() returned

histVars == <<job_execution_history, submitted_events, history_view>>

vars == <<scanVars, txVars, mediaVars, reqVars, libVars, sbVars, histVars>>

(***************************************************************************)
(* MediaFile rows.                                                         *)
(***************************************************************************)
NoRow == [exists |-> FALSE, deleted_at |-> NULL, scanned_at |-> NULL]
Row(d, s) == [exists |-> TRUE, deleted_at |-> d, scanned_at |-> s]

\* Path.exists() / stat() of a file of the tree
OnDisk(p) == root_state = "dir" /\ p \in disk

\* os.scandir(d) succeeds
DirReadable(d) == root_state = "dir"

(***************************************************************************)
(* Job registry (services/jobs.py).                                        *)
(***************************************************************************)
NewJobState ==
    [status |-> "pending", last_run_time |-> NULL, running_since |-> NULL,
     error |-> "", files_total |-> NoInt, files_processed |-> NoInt,
     current_file |-> <<>>, cancellation_requested |-> FALSE,
     cancelled_at |-> NULL]

\* _ensure_state: a state entry exists afterwards
EnsureState(states, j) ==
    IF j \in DOMAIN states THEN states
    ELSE [k \in DOMAIN states \cup {j} |->
             IF k = j THEN NewJobState ELSE states[k]]

\* the index of the most recent record of job j that is still "running", or 0
RunningRecord(hist, j) ==
    LET S == {i \in 1..Len(hist) : hist[i].job_id = j /\ hist[i].status = "running"}
    IN  IF S = {} THEN 0 ELSE CHOOSE i \in S : \A k \in S : k <= i

\* _update_execution_record
UpdateExecutionRecord(hist, j, status, error) ==
    LET i == RunningRecord(hist, j)
    IN  IF i = 0 THEN hist
        ELSE [hist EXCEPT ![i] = [@ EXCEPT !.status = status,
                                           !.completed_at = clock,
                                           !.error = error]]

\* update_job_progress on the JobState
ProgressState(states, j, total, processed, current) ==
    IF j \notin DOMAIN states THEN states
    ELSE [states EXCEPT ![j] =
            [@ EXCEPT !.files_total = IF total # NoInt THEN total ELSE @,
                      !.files_processed = IF processed # NoInt THEN processed ELSE @,
                      !.current_file = IF current # <<>> THEN current ELSE @]]

\* update_job_progress on the execution record
ProgressHistory(hist, j, total, processed) ==
    LET i == RunningRecord(hist, j)
    IN  IF i = 0 THEN hist
        ELSE [hist EXCEPT ![i] =
                [@ EXCEPT !.files_total = IF total # NoInt THEN total ELSE @,
                          !.files_processed = IF processed # NoInt THEN processed ELSE @]]

\* is_cancellation_requested
is_cancellation_requested(j) ==
    IF j \in DOMAIN job_states THEN job_states[j].cancellation_requested ELSE FALSE

\* mark_job_cancelled on the JobState
MarkCancelledState(states, j) ==
    IF j \notin DOMAIN states THEN states
    ELSE [states EXCEPT ![j] = [@ EXCEPT !.status = "cancelled",
                                         !.running_since = NULL,
                                         !.cancellation_requested = FALSE]]

\* mark_job_cancelled on the history
MarkCancelledHistory(hist, j) ==
    IF j \notin DOMAIN job_states THEN hist
    ELSE UpdateExecutionRecord(hist, j, "cancelled", "Job was cancelled by user")

\* cleanup_deleted_media has not been called yet
NoPurge == [count |-> NoInt, grace_period_days |-> NoInt, now |-> NULL]

\* no cancel request has been answered yet
NoResp == [job_id |-> "", code |-> 0, status |-> ""]

(***************************************************************************)
(* Initial state.                                                          *)
(***************************************************************************)
IdleScan ==
    [pc |-> "idle", walk_todo |-> <<>>, video_files |-> <<>>, idx |-> 0,
     scanned_paths |-> {}, new_files_count |-> 0, updated_files_count |-> 0,
     restored_files_count |-> 0, pending_changes |-> 0, was_cancelled |-> FALSE,
     root_ok |-> FALSE, root_lost |-> FALSE, started_at |-> NULL, db_at_start |-> [p \in DbPaths |-> NoRow],
     stats |-> [new |-> 0, updated |-> 0, deleted |-> 0, restored |-> 0,
                cancelled |-> FALSE]]

\* rows left by earlier scans: absent, live, or soft-deleted
InitRows(p) ==
    IF p = X1 THEN {NoRow, Row(NULL, 1)}
    ELSE {NoRow, Row(NULL, 1), Row(1, 1)}

\* FFmpegTranscoder.__init__ and an empty TranscodingJob table.
NoJob ==
    [exists |-> FALSE, type |-> "none", status |-> "none", output_path |-> FALSE,
     process_id |-> NoInt, last_accessed_at |-> NULL, error_message |-> "",
     progress_percent |-> 0]

TranscoderInit ==
    /\ tclock = 1
    /\ tjobs = [j \in TJobIds |-> NoJob]
    /\ dirs = {}
    /\ proc = [j \in TJobIds |-> "none"]
    /\ spawned = [j \in TJobIds |-> 0]
    /\ active_jobs = {}
    /\ start_pc = [j \in TJobIds |-> "none"]
    /\ mon_pc = [j \in TJobIds |-> "none"]
    /\ stop_pc = [j \in TJobIds |-> "none"]
    /\ q_sent = [j \in TJobIds |-> FALSE]
    /\ cleanup_runs = 0
    /\ playlist = {}

ScanInit ==
    /\ clock = 1
    /\ root_state \in {"dir", "missing", "notdir"}
    /\ disk \in SUBSET DiskPaths
    /\ env_changes = 0
    /\ db \in {f \in [DbPaths -> {NoRow, Row(NULL, 1), Row(1, 1)}] :
                 \A p \in DbPaths : f[p] \in InitRows(p)}
    /\ sess = db
    /\ scan = IdleScan
    /\ job_states = [j \in JOB_REGISTRY |-> NewJobState]
    /\ history = <<>>
    /\ sched = [j \in AllJobIds |-> "none"]
    /\ cancel_resp = NoResp
    /\ runs = 0

(***************************************************************************)
(* Scheduler and its listener (_handle_job_event).                         *)
(***************************************************************************)
\* schedule_library_scan: add the one-off job and make sure it has a state
ScheduleLibraryScan ==
    /\ sched[ScanJob] = "none"
    /\ runs < MaxRuns
    /\ sched' = [sched EXCEPT ![ScanJob] = "scheduled"]
    /\ job_states' = EnsureState(job_states, ScanJob)
    /\ UNCHANGED <<clock, root_state, disk, env_changes, db, sess, scan, history, cancel_resp, runs>>
    /\ UNCHANGED <<txVars, mediaVars, reqVars, libVars, sbVars, histVars>>

\* EVENT_JOB_SUBMITTED on the JobState
SubmittedState(states, j) ==
    [states EXCEPT ![j] = [@ EXCEPT !.status = "running",
                                    !.running_since = clock + 1,
                                    !.error = ""]]

\* EVENT_JOB_SUBMITTED: the run starts; scan_library_job is entered
Submitted ==
    /\ sched[ScanJob] = "scheduled"
    /\ clock' = clock + 1
    /\ job_states' = SubmittedState(EnsureState(job_states, ScanJob), ScanJob)
    /\ history' = Append(history,
                     [job_id |-> ScanJob, job_type |-> "one-off",
                      started_at |-> clock + 1, completed_at |-> NULL,
                      status |-> "running", error |-> "",
                      files_total |-> NoInt, files_processed |-> NoInt])
    /\ sched' = [sched EXCEPT ![ScanJob] = "running"]
    /\ runs' = runs + 1
    /\ scan' = [IdleScan EXCEPT !.pc = "start"]
    /\ UNCHANGED <<root_state, disk, env_changes, db, sess, cancel_resp>>
    /\ UNCHANGED <<txVars, mediaVars, reqVars, libVars, sbVars, histVars>>

\* mutant: the executed event leaves running_since as it is
ExecutedState_KeepsRunningSince(states, j) ==
    [states EXCEPT ![j] = [@ EXCEPT !.status = "success",
                                    !.last_run_time = clock,
                                    !.error = ""]]

\* EVENT_JOB_EXECUTED on the JobState
ExecutedState(states, j) ==
    [states EXCEPT ![j] = [@ EXCEPT !.status = "success",
                                    !.last_run_time = clock,
                                    !.running_since = NULL,
                                    !.error = ""]]

\* EVENT_JOB_EXECUTED: the job function returned
Executed ==
    /\ sched[ScanJob] = "running"
    /\ scan.pc = "returned"
    /\ job_states' = ExecutedState(EnsureState(job_states, ScanJob), ScanJob)
    /\ history' = UpdateExecutionRecord(history, ScanJob, "completed", "")
    /\ sched' = [sched EXCEPT ![ScanJob] = "none"]
    /\ scan' = [scan EXCEPT !.pc = "idle"]
    /\ UNCHANGED <<clock, root_state, disk, env_changes, db, sess, cancel_resp, runs>>
    /\ UNCHANGED <<txVars, mediaVars, reqVars, libVars, sbVars, histVars>>

\* EVENT_JOB_ERROR / EVENT_JOB_MISSED on the JobState; exc = "" when the
\* event carries no exception
ErrorState(states, j, exc) ==
    [states EXCEPT ![j] = [@ EXCEPT !.status = "failed",
                                    !.last_run_time = clock,
                                    !.running_since = NULL,
                                    !.error = IF exc # "" THEN exc ELSE @]]

\* EVENT_JOB_MISSED: the run time of the scheduled job passed without a run
Missed ==
    /\ sched[ScanJob] = "scheduled"
    /\ job_states' = ErrorState(EnsureState(job_states, ScanJob), ScanJob, "")
    /\ history' = UpdateExecutionRecord(history, ScanJob, "failed", "")
    /\ sched' = [sched EXCEPT ![ScanJob] = "none"]
    /\ UNCHANGED <<clock, root_state, disk, env_changes, db, sess, scan, cancel_resp, runs>>
    /\ UNCHANGED <<txVars, mediaVars, reqVars, libVars, sbVars, histVars>>

\* EVENT_JOB_ERROR: the job function raised
JobError ==
    /\ sched[ScanJob] = "running"
    /\ scan.pc = "raised"
    /\ job_states' = ErrorState(EnsureState(job_states, ScanJob), ScanJob, "FileNotFoundError")
    /\ history' = UpdateExecutionRecord(history, ScanJob, "failed", "FileNotFoundError")
    /\ sched' = [sched EXCEPT ![ScanJob] = "none"]
    /\ scan' = [scan EXCEPT !.pc = "idle"]
    /\ UNCHANGED <<clock, root_state, disk, env_changes, db, sess, cancel_resp, runs>>
    /\ UNCHANGED <<txVars, mediaVars, reqVars, libVars, sbVars, histVars>>

\* request_job_cancellation on the JobState
RequestedState(states, j) ==
    IF j \in DOMAIN states /\ states[j].status = "running"
    THEN [states EXCEPT ![j] = [@ EXCEPT !.cancellation_requested = TRUE,
                                         !.cancelled_at = clock]]
    ELSE states

\* the value request_job_cancellation returns
request_job_cancellation(states, j) ==
    j \in DOMAIN states /\ states[j].status = "running"

\* mutant: every job that has a state is told its cancellation was requested
CancelResponse_AcceptsAll(states, j) ==
    IF j \notin DOMAIN states
    THEN [job_id |-> j, code |-> 404, status |-> ""]
    ELSE [job_id |-> j, code |-> 200, status |-> states[j].status]

\* cancel_job: 404 without a state, 409 unless running, else the request is
\* made (500 if the registry refuses it)
CancelResponse(states, j) ==
    IF j \notin DOMAIN states
    THEN [job_id |-> j, code |-> 404, status |-> ""]
    ELSE IF states[j].status # "running"
    THEN [job_id |-> j, code |-> 409, status |-> states[j].status]
    ELSE IF ~request_job_cancellation(states, j)
    THEN [job_id |-> j, code |-> 500, status |-> states[j].status]
    ELSE [job_id |-> j, code |-> 200, status |-> states[j].status]

\* cancel_job(j), the dashboard's cancel endpoint.  The scan has no await
\* between its root check and the first lookup of the ingest pass, so no
\* request lands inside the enumeration or before the first file.
RequestCancel(j) ==
    /\ scan.pc # "walk"
    /\ ~(scan.pc = "ingest" /\ scan.idx = 0)
    /\ cancel_resp' = CancelResponse(job_states, j)
    /\ job_states' = IF CancelResponse(job_states, j).code \in {404, 409}
                     THEN job_states
                     ELSE RequestedState(job_states, j)
    /\ UNCHANGED <<clock, root_state, disk, env_changes, db, sess, scan, history, sched, runs>>
    /\ UNCHANGED <<txVars, mediaVars, reqVars, libVars, sbVars, histVars>>

(***************************************************************************)
(* scan_library_path (services/scanner.py), run as the scan job's body.    *)
(***************************************************************************)
\* mutant: the early return never reports a cancellation
ZeroStats_NotCancelled(cancelled) ==
    [new |-> 0, updated |-> 0, deleted |-> 0, restored |-> 0, cancelled |-> FALSE]

ZeroStats(cancelled) ==
    [new |-> 0, updated |-> 0, deleted |-> 0, restored |-> 0, cancelled |-> cancelled]

\* the video files os.walk reports in directory d: suffix.lower() in VIDEO_EXTENSIONS
VideoFilesIn(d) ==
    SetToSeq({p \in disk : Parent(p) = d /\ Lower(Suffix(p)) \in VIDEO_EXTENSIONS})

\* mutant: a root that does not exist is walked like a directory
root_usable_MissingOk(state) == state # "notdir"

\* line 336: path.exists() and path.is_dir()
root_usable(state) == state = "dir"

\* lines 335-348: resolve the root; a missing root or a non-directory returns zero stats
ScanStart ==
    /\ scan.pc = "start"
    /\ IF ~root_usable(root_state)
       THEN scan' = [scan EXCEPT !.pc = "returned", !.stats = ZeroStats(FALSE),
                                 !.started_at = clock, !.db_at_start = db]
       ELSE scan' = [scan EXCEPT !.pc = "walk", !.walk_todo = <<LibRoot>>,
                                 !.root_ok = (root_state = "dir"),
                                 !.started_at = clock, !.db_at_start = db]
    /\ sess' = db
    /\ UNCHANGED <<clock, root_state, disk, env_changes, db, job_states, history, sched, cancel_resp, runs>>
    /\ UNCHANGED <<txVars, mediaVars, reqVars, libVars, sbVars, histVars>>

\* lines 353-381: one directory of the os.walk; after the last one files_total is published
WalkDir ==
    /\ scan.pc = "walk"
    /\ LET d == Head(scan.walk_todo)
           rest == Tail(scan.walk_todo)
           readable == DirReadable(d)
           todo == IF readable THEN rest \o Subdirs(d) ELSE rest
           files == IF readable THEN scan.video_files \o VideoFilesIn(d)
                    ELSE scan.video_files
       IN  IF readable /\ is_cancellation_requested(ScanJob)
           THEN /\ scan' = [scan EXCEPT !.pc = "returned", !.was_cancelled = TRUE,
                                        !.stats = ZeroStats(TRUE)]
                /\ job_states' = MarkCancelledState(job_states, ScanJob)
                /\ history' = MarkCancelledHistory(history, ScanJob)
           ELSE IF todo # <<>>
           THEN /\ scan' = [scan EXCEPT !.walk_todo = todo, !.video_files = files]
                /\ UNCHANGED <<job_states, history>>
           ELSE /\ scan' = [scan EXCEPT !.pc = "ingest", !.walk_todo = todo,
                                        !.video_files = files, !.idx = 0]
                /\ job_states' = ProgressState(job_states, ScanJob, Len(files), 0, <<>>)
                /\ history' = ProgressHistory(history, ScanJob, Len(files), 0)
    /\ UNCHANGED <<clock, root_state, disk, env_changes, db, sess, sched, cancel_resp, runs>>
    /\ UNCHANGED <<txVars, mediaVars, reqVars, libVars, sbVars, histVars>>

\* mutant: a re-observed file keeps its soft-delete mark
UpdateExisting_KeepsDeleted(rows, p) ==
    [rows EXCEPT ![p] = [@ EXCEPT !.scanned_at = clock]]

\* mutant: scanned_at is not refreshed for a file that already has a row
UpdateExisting_StaleScannedAt(rows, p) ==
    [rows EXCEPT ![p] = [@ EXCEPT !.deleted_at = NULL]]

\* lines 404-423: the file has a row: restore or update it, refresh scanned_at
UpdateExisting(rows, p) ==
    [rows EXCEPT ![p] = [@ EXCEPT !.deleted_at = NULL, !.scanned_at = clock]]

\* lines 424-450: the file has no row: insert one (scanned_at defaults to now)
InsertNew(rows, p) ==
    [rows EXCEPT ![p] = Row(NULL, clock)]

\* lines 384-456: ingest of one enumerated file, no cancellation requested
IngestFile ==
    /\ scan.pc = "ingest"
    /\ scan.idx < Len(scan.video_files)
    /\ ~is_cancellation_requested(ScanJob)
    /\ LET p == scan.video_files[scan.idx + 1]
           existing == sess[p].exists
           restored == existing /\ sess[p].deleted_at # NULL
           rows == IF existing THEN UpdateExisting(sess, p) ELSE InsertNew(sess, p)
           pending == scan.pending_changes + 1
       IN  /\ job_states' = ProgressState(job_states, ScanJob, NoInt, scan.idx, p)
           /\ history' = ProgressHistory(history, ScanJob, NoInt, scan.idx)
           /\ IF ~existing /\ ~OnDisk(p)
              THEN \* file_path.stat() raises FileNotFoundError; the session is
                   \* closed without a commit
                   /\ scan' = [scan EXCEPT !.pc = "raised",
                                           !.scanned_paths = @ \cup {p}]
                   /\ sess' = db
                   /\ db' = db
              ELSE /\ scan' = [scan EXCEPT
                          !.scanned_paths = @ \cup {p},
                          !.idx = @ + 1,
                          !.restored_files_count = IF restored THEN @ + 1 ELSE @,
                          !.updated_files_count =
                              IF existing /\ ~restored THEN @ + 1 ELSE @,
                          !.new_files_count = IF ~existing THEN @ + 1 ELSE @,
                          !.pending_changes =
                              IF pending >= batch_size THEN 0 ELSE pending]
                   /\ sess' = rows
                   /\ db' = IF pending >= batch_size THEN rows ELSE db
    /\ UNCHANGED <<clock, root_state, disk, env_changes, sched, cancel_resp, runs>>
    /\ UNCHANGED <<txVars, mediaVars, reqVars, libVars, sbVars, histVars>>

\* lines 490-496: the returned statistics
Stats(deleted) ==
    [new |-> scan.new_files_count, updated |-> scan.updated_files_count,
     deleted |-> deleted, restored |-> scan.restored_files_count,
     cancelled |-> scan.was_cancelled]

\* mutant: only the rows of files directly in the root directory are selected
LibraryFiles_TopLevelOnly(rows, root) ==
    {p \in DbPaths : rows[p].exists /\ Parent(p) = root /\ rows[p].deleted_at = NULL}

\* lines 471-476: the live rows whose file_path starts with str(path)
LibraryFiles(rows, root) ==
    {p \in DbPaths : rows[p].exists /\ StartsWith(p, root) /\ rows[p].deleted_at = NULL}

\* lines 478-484: the rows the reap pass soft-deletes
ToReap(rows, root, scanned) ==
    {p \in LibraryFiles(rows, root) : p \notin scanned}

\* mutant: the reap pass counts the unobserved rows but leaves them live
Reap_NoMark(rows, root, scanned) ==
    rows

\* lines 478-484: soft-delete them with now
Reap(rows, root, scanned) ==
    [p \in DbPaths |->
        IF p \in ToReap(rows, root, scanned)
        THEN [rows[p] EXCEPT !.deleted_at = clock] ELSE rows[p]]

\* mutant: the reap pass runs whether or not the scan was cancelled
ReapPass_IgnoresCancel(rows, root, scanned, was_cancelled) ==
    Reap(rows, root, scanned)

\* lines 467-488: the reap pass, only if the scan was not cancelled
ReapPass(rows, root, scanned, was_cancelled) ==
    IF was_cancelled THEN rows ELSE Reap(rows, root, scanned)

\* deleted_files_count
DeletedCount(rows, root, scanned, was_cancelled) ==
    IF was_cancelled THEN 0 ELSE Cardinality(ToReap(rows, root, scanned))

\* mutant: the pending batch is dropped when the scan is cancelled
CommitPending_Dropped(committed, session, pending) ==
    committed

\* lines 388-390: the pending changes of the session are committed
CommitPending(committed, session, pending) ==
    IF pending > 0 THEN session ELSE committed

\* lines 386-395 and 458-509: cancellation seen before a file: commit, mark, return
IngestCancelled ==
    /\ scan.pc = "ingest"
    /\ scan.idx < Len(scan.video_files)
    /\ is_cancellation_requested(ScanJob)
    /\ job_states' = MarkCancelledState(job_states, ScanJob)
    /\ history' = MarkCancelledHistory(history, ScanJob)
    /\ sess' = ReapPass(sess, LibRoot, scan.scanned_paths, TRUE)
    /\ db' = CommitPending(db, sess', scan.pending_changes)
    /\ scan' = [scan EXCEPT !.pc = "returned", !.was_cancelled = TRUE,
                   !.pending_changes = 0,
                   !.stats = [Stats(DeletedCount(sess, LibRoot, scan.scanned_paths, TRUE))
                                 EXCEPT !.cancelled = TRUE]]
    /\ UNCHANGED <<clock, root_state, disk, env_changes, sched, cancel_resp, runs>>
    /\ UNCHANGED <<txVars, mediaVars, reqVars, libVars, sbVars, histVars>>

\* lines 458-509: the ingest loop is over: final progress, commit, reap, return
ReapAndReturn ==
    /\ scan.pc = "ingest"
    /\ scan.idx = Len(scan.video_files)
    /\ job_states' = ProgressState(job_states, ScanJob, NoInt, Len(scan.video_files), <<>>)
    /\ history' = ProgressHistory(history, ScanJob, NoInt, Len(scan.video_files))
    /\ sess' = ReapPass(sess, LibRoot, scan.scanned_paths, scan.was_cancelled)
    /\ db' = sess'
    /\ scan' = [scan EXCEPT !.pc = "returned", !.pending_changes = 0,
                   !.stats = Stats(DeletedCount(sess, LibRoot, scan.scanned_paths,
                                                scan.was_cancelled))]
    /\ UNCHANGED <<clock, root_state, disk, env_changes, sched, cancel_resp, runs>>
    /\ UNCHANGED <<txVars, mediaVars, reqVars, libVars, sbVars, histVars>>

(***************************************************************************)
(* The environment: the library tree changes under the scanner.            *)
(***************************************************************************)
FileVanishes(p) ==
    /\ env_changes < MaxEnv
    /\ p \in disk
    /\ disk' = disk \ {p}
    /\ env_changes' = env_changes + 1
    /\ UNCHANGED <<clock, root_state, db, sess, scan, job_states, history, sched, cancel_resp, runs>>
    /\ UNCHANGED <<txVars, mediaVars, reqVars, libVars, sbVars, histVars>>

FileAppears(p) ==
    /\ env_changes < MaxEnv
    /\ p \notin disk
    /\ disk' = disk \cup {p}
    /\ env_changes' = env_changes + 1
    /\ UNCHANGED <<clock, root_state, db, sess, scan, job_states, history, sched, cancel_resp, runs>>
    /\ UNCHANGED <<txVars, mediaVars, reqVars, libVars, sbVars, histVars>>

\* the root disappears (the volume is unmounted)
RootVanishes ==
    /\ env_changes < MaxEnv
    /\ root_state = "dir"
    /\ root_state' = "missing"
    /\ env_changes' = env_changes + 1
    /\ scan' = [scan EXCEPT !.root_lost = @ \/ scan.pc \in {"walk", "ingest"}]
    /\ UNCHANGED <<clock, disk, db, sess, job_states, history, sched, cancel_resp, runs>>
    /\ UNCHANGED <<txVars, mediaVars, reqVars, libVars, sbVars, histVars>>

ScanNext ==
    \/ ScheduleLibraryScan
    \/ Submitted
    \/ Executed
    \/ JobError
    \/ Missed
    \/ \E j \in CancelTargets : RequestCancel(j)
    \/ ScanStart
    \/ WalkDir
    \/ IngestFile
    \/ IngestCancelled
    \/ ReapAndReturn
    \/ \E p \in DiskPaths : FileVanishes(p)
    \/ \E p \in DiskPaths : FileAppears(p)
    \/ RootVanishes

\* The state after start-up: libraries and rows as found, no transcoding job.
\* no maintenance run and no scan request is part of this specification
MediaIdleInit ==
    /\ today = 1
    /\ media = [p \in DbPaths |-> NoRow]
    /\ tracks = {}
    /\ purge = NoPurge

ReqIdleInit ==
    /\ now_s = 100
    /\ job_store = {}
    /\ req_states = {}
    /\ issued = <<>>

\* no Library row
NoLibrary == [exists |-> FALSE, path |-> <<>>, enabled |-> FALSE]

LibIds == {1, 2}

\* two scan jobs that may run at the same time: distinct job ids
ScanJobs == {1, 2}

\* no scan_library_path call of the job
IdleWalk == [pc |-> "idle", root |-> <<>>, scanned_paths |-> {}]

\* a fresh database: no library, no media file
LibIdleInit ==
    /\ libraries = [i \in LibIds |-> NoLibrary]
    /\ mediafiles = [p \in DbPaths |-> NoRow]
    /\ lib_disk = DbPaths
    /\ lib_scans = [s \in ScanJobs |-> IdleWalk]

\* Python strings that the decision splits, strips or lower-cases are
\* sequences of characters; None and "" (both falsy) are <<>>.
\* An Optional value that is not a string is <<>> (None) or <<v>>.
mp4 == <<"m", "p", "4">>

mkv == <<"m", "k", "v">>

h264 == <<"h", "2", "6", "4">>

hevc == <<"h", "e", "v", "c">>

aac == <<"a", "a", "c">>

dts == <<"d", "t", "s">>

\* no playback decision in progress
SbRequestIdle ==
    /\ sb_media = [file_extension |-> <<".">> \o mp4,
                   video_tracks |-> <<>>, audio_tracks |-> <<>>]
    /\ sb_profile = [DirectPlayProfiles |-> <<>>, CodecProfiles |-> <<>>]
    /\ sb_options = [enable_direct_play |-> TRUE,
                     enable_direct_stream |-> TRUE,
                     enable_transcoding |-> TRUE,
                     requested_resolution |-> <<>>]
    /\ sb_info = <<>>

\* no VideoRange evaluation in progress; a NULL column is <<>>, a string s
\* is <<s>>
VrIdle ==
    /\ vr_track = [color_space |-> <<>>, color_primaries |-> <<>>,
                   color_transfer |-> <<>>]
    /\ vr_value = <<>>

SbIdleInit == SbRequestIdle /\ VrIdle

\* a fresh process: no execution record
HistIdleInit ==
    /\ job_execution_history = <<>>
    /\ submitted_events = 0
    /\ history_view = <<>>

Init == ScanInit /\ TranscoderInit /\ MediaIdleInit /\ ReqIdleInit /\ LibIdleInit /\ SbIdleInit /\ HistIdleInit

Spec == Init /\ [][ScanNext]_vars

(***************************************************************************)
(* The transcoding orchestrator.                                           *)
(***************************************************************************)
MaxTicks == 3
MaxCleanups == 2
TickHours == 12
max_age_hours == 24

TERMINAL == {"completed", "failed", "cancelled"}
Exited == {"exit0", "exit_err"}
JobTypes == {"remux", "hls"}

\* An UPDATE ... WHERE id = job_id changes the row only while it exists.
MarkRunning(rows, j) ==
    IF rows[j].exists
    THEN [rows EXCEPT ![j].status = "running", ![j].output_path = TRUE]
    ELSE rows

SetProcessId(rows, j, pid) ==
    IF rows[j].exists THEN [rows EXCEPT ![j].process_id = pid] ELSE rows

\* _update_job_progress: a parsed progress, short of the end
update_job_progress(rows, j, now) ==
    IF rows[j].exists
    THEN [rows EXCEPT ![j].last_accessed_at = now, ![j].progress_percent = 50]
    ELSE rows

\* mutant: the completed job keeps the progress last parsed
mark_job_completed_KeepsProgress(rows, j) ==
    IF rows[j].exists THEN [rows EXCEPT ![j].status = "completed"] ELSE rows

mark_job_completed(rows, j) ==
    IF rows[j].exists
    THEN [rows EXCEPT ![j].status = "completed", ![j].progress_percent = 100]
    ELSE rows

mark_job_failed(rows, j, msg) ==
    IF rows[j].exists
    THEN [rows EXCEPT ![j].status = "failed", ![j].error_message = msg]
    ELSE rows

MarkCancelled(rows, j) ==
    IF rows[j].exists THEN [rows EXCEPT ![j].status = "cancelled"] ELSE rows

\* The router's start handlers: a fresh uuid4 and a pending TranscodingJob.
FreshId(j) == start_pc[j] = "none"

CreateJob(j, t) ==
    /\ FreshId(j)
    /\ tjobs' = [tjobs EXCEPT ![j] =
                   [exists |-> TRUE, type |-> t, status |-> "pending",
                    output_path |-> FALSE, process_id |-> NoInt,
                    last_accessed_at |-> tclock, error_message |-> "",
                    progress_percent |-> 0]]
    /\ start_pc' = [start_pc EXCEPT ![j] = "created"]
    /\ UNCHANGED <<tclock, dirs, proc, spawned, active_jobs, mon_pc, stop_pc, cleanup_runs, q_sent>>
    /\ UNCHANGED playlist
    /\ UNCHANGED <<scanVars, mediaVars, reqVars, libVars, sbVars, histVars>>

\* start_hls_transcode / start_remux_hls up to the spawn: the job directory
\* is made and the row becomes running with its output_path.
PrepareJob(j) ==
    /\ start_pc[j] = "created"
    /\ dirs' = dirs \cup {j}
    /\ tjobs' = MarkRunning(tjobs, j)
    /\ start_pc' = [start_pc EXCEPT ![j] = "prepared"]
    /\ UNCHANGED <<tclock, proc, spawned, active_jobs, mon_pc, stop_pc, cleanup_runs, q_sent>>
    /\ UNCHANGED playlist
    /\ UNCHANGED <<scanVars, mediaVars, reqVars, libVars, sbVars, histVars>>

\* create_subprocess_exec raises: no process comes to exist.
SpawnRaises(j) ==
    /\ start_pc[j] = "prepared"
    /\ start_pc' = [start_pc EXCEPT ![j] = "except"]
    /\ UNCHANGED <<tclock, tjobs, dirs, proc, spawned, active_jobs, mon_pc, stop_pc, cleanup_runs, q_sent>>
    /\ UNCHANGED playlist
    /\ UNCHANGED <<scanVars, mediaVars, reqVars, libVars, sbVars, histVars>>

\* start_hls_transcode only: the encoder exits within the 0.1 s check, which
\* raises before the process is registered.
SpawnExitsAtOnce(j, rc) ==
    /\ start_pc[j] = "prepared"
    /\ tjobs[j].type = "hls"
    /\ proc' = [proc EXCEPT ![j] = rc]
    /\ spawned' = [spawned EXCEPT ![j] = @ + 1]
    /\ start_pc' = [start_pc EXCEPT ![j] = "except"]
    /\ UNCHANGED <<tclock, tjobs, dirs, active_jobs, mon_pc, stop_pc, cleanup_runs, q_sent>>
    /\ UNCHANGED playlist
    /\ UNCHANGED <<scanVars, mediaVars, reqVars, libVars, sbVars, histVars>>

\* The encoder is spawned and registered in _active_jobs.
SpawnRegisters(j) ==
    /\ start_pc[j] = "prepared"
    /\ proc' = [proc EXCEPT ![j] = "running"]
    /\ spawned' = [spawned EXCEPT ![j] = @ + 1]
    /\ active_jobs' = active_jobs \cup {j}
    /\ start_pc' = [start_pc EXCEPT ![j] = "registered"]
    /\ UNCHANGED <<tclock, tjobs, dirs, mon_pc, stop_pc, cleanup_runs, q_sent>>
    /\ UNCHANGED playlist
    /\ UNCHANGED <<scanVars, mediaVars, reqVars, libVars, sbVars, histVars>>

\* The process id is stored and the _monitor_progress task is created.
StartMonitor(j) ==
    /\ start_pc[j] = "registered"
    /\ tjobs' = SetProcessId(tjobs, j, 1)
    /\ mon_pc' = [mon_pc EXCEPT ![j] = "reading"]
    /\ start_pc' = [start_pc EXCEPT ![j] = "waiting"]
    /\ UNCHANGED <<tclock, dirs, proc, spawned, active_jobs, stop_pc, cleanup_runs, q_sent>>
    /\ UNCHANGED playlist
    /\ UNCHANGED <<scanVars, mediaVars, reqVars, libVars, sbVars, histVars>>

\* The wait for the playlist ends and the handler answers.
StartReturns(j) ==
    /\ start_pc[j] = "waiting"
    /\ start_pc' = [start_pc EXCEPT ![j] = "done"]
    /\ UNCHANGED <<tclock, tjobs, dirs, proc, spawned, active_jobs, mon_pc, stop_pc, cleanup_runs, q_sent>>
    /\ UNCHANGED playlist
    /\ UNCHANGED <<scanVars, mediaVars, reqVars, libVars, sbVars, histVars>>

\* The except clause of the start: _mark_job_failed, then HTTPException.
StartFailed(j) ==
    /\ start_pc[j] = "except"
    /\ tjobs' = mark_job_failed(tjobs, j, "Failed to start")
    /\ start_pc' = [start_pc EXCEPT ![j] = "router_except"]
    /\ UNCHANGED <<tclock, dirs, proc, spawned, active_jobs, mon_pc, stop_pc, cleanup_runs, q_sent>>
    /\ UNCHANGED playlist
    /\ UNCHANGED <<scanVars, mediaVars, reqVars, libVars, sbVars, histVars>>

\* The router's except clause deletes the job row and answers 500.
RouterDeletesJob(j) ==
    /\ start_pc[j] = "router_except"
    /\ tjobs' = [tjobs EXCEPT ![j] = NoJob]
    /\ start_pc' = [start_pc EXCEPT ![j] = "failed"]
    /\ UNCHANGED <<tclock, dirs, proc, spawned, active_jobs, mon_pc, stop_pc, cleanup_runs, q_sent>>
    /\ UNCHANGED playlist
    /\ UNCHANGED <<scanVars, mediaVars, reqVars, libVars, sbVars, histVars>>

\* The encoder process ends by itself, with return code 0 or not.
ProcExits(j, rc) ==
    /\ proc[j] = "running"
    /\ proc' = [proc EXCEPT ![j] = rc]
    /\ UNCHANGED <<tclock, tjobs, dirs, spawned, active_jobs, start_pc, mon_pc, stop_pc, cleanup_runs, q_sent>>
    /\ UNCHANGED playlist
    /\ UNCHANGED <<scanVars, mediaVars, reqVars, libVars, sbVars, histVars>>

\* The running encoder writes the playlist file into the job directory.
EncoderWritesPlaylist(j) ==
    /\ proc[j] = "running"
    /\ j \in dirs
    /\ j \notin playlist
    /\ playlist' = playlist \cup {j}
    /\ UNCHANGED <<tclock, tjobs, dirs, proc, spawned, active_jobs, start_pc, mon_pc, stop_pc, cleanup_runs, q_sent>>
    /\ UNCHANGED <<scanVars, mediaVars, reqVars, libVars, sbVars, histVars>>

\* _monitor_progress: a progress line is parsed and stored.
MonitorProgress(j) ==
    /\ mon_pc[j] = "reading"
    /\ proc[j] = "running"
    /\ tjobs' = update_job_progress(tjobs, j, tclock)
    /\ UNCHANGED <<tclock, dirs, proc, spawned, active_jobs, start_pc, mon_pc, stop_pc, cleanup_runs, q_sent>>
    /\ UNCHANGED playlist
    /\ UNCHANGED <<scanVars, mediaVars, reqVars, libVars, sbVars, histVars>>

\* mutant: a non-zero return code leaves the status as it is
ExitStatus_KeepsRunning(rc) == IF rc = "exit0" THEN "completed" ELSE "running"

\* The status _monitor_progress writes for a return code.
ExitStatus(rc) == IF rc = "exit0" THEN "completed" ELSE "failed"

\* _monitor_progress: stderr reaches EOF, the process has exited and the
\* terminal status is written.
MonitorMark(j) ==
    /\ mon_pc[j] = "reading"
    /\ proc[j] \in Exited
    /\ tjobs' = IF ExitStatus(proc[j]) = "completed"
                THEN mark_job_completed(tjobs, j)
                ELSE IF ExitStatus(proc[j]) = "failed"
                     THEN mark_job_failed(tjobs, j, "FFmpeg exited")
                     ELSE tjobs
    /\ mon_pc' = [mon_pc EXCEPT ![j] = "marked"]
    /\ UNCHANGED <<tclock, dirs, proc, spawned, active_jobs, start_pc, stop_pc, cleanup_runs, q_sent>>
    /\ UNCHANGED playlist
    /\ UNCHANGED <<scanVars, mediaVars, reqVars, libVars, sbVars, histVars>>

\* _monitor_progress: reading or storing progress raises while the encoder
\* still runs.
MonitorRaises(j) ==
    /\ mon_pc[j] = "reading"
    /\ proc[j] = "running"
    /\ tjobs' = mark_job_failed(tjobs, j, "Progress monitoring failed")
    /\ mon_pc' = [mon_pc EXCEPT ![j] = "marked"]
    /\ UNCHANGED <<tclock, dirs, proc, spawned, active_jobs, start_pc, stop_pc, cleanup_runs, q_sent>>
    /\ UNCHANGED playlist
    /\ UNCHANGED <<scanVars, mediaVars, reqVars, libVars, sbVars, histVars>>

\* _monitor_progress: the finally clause.
MonitorPop(j) ==
    /\ mon_pc[j] = "marked"
    /\ active_jobs' = active_jobs \ {j}
    /\ mon_pc' = [mon_pc EXCEPT ![j] = "done"]
    /\ UNCHANGED <<tclock, tjobs, dirs, proc, spawned, start_pc, stop_pc, cleanup_runs, q_sent>>
    /\ UNCHANGED playlist
    /\ UNCHANGED <<scanVars, mediaVars, reqVars, libVars, sbVars, histVars>>

\* stop_hls_stream on a job that has no registered process: stop_job
\* returns False.
StopNotRunning(j) ==
    /\ tjobs[j].exists
    /\ stop_pc[j] \in {"none", "false"}
    /\ j \notin active_jobs
    /\ stop_pc' = [stop_pc EXCEPT ![j] = "false"]
    /\ UNCHANGED <<tclock, tjobs, dirs, proc, spawned, active_jobs, start_pc, mon_pc, cleanup_runs, q_sent>>
    /\ UNCHANGED playlist
    /\ UNCHANGED <<scanVars, mediaVars, reqVars, libVars, sbVars, histVars>>

\* stop_job on a registered process: q is written and the wait begins.
StopRequest(j) ==
    /\ tjobs[j].exists
    /\ stop_pc[j] \in {"none", "false"}
    /\ j \in active_jobs
    /\ stop_pc' = [stop_pc EXCEPT ![j] = "waiting"]
    /\ q_sent' = [q_sent EXCEPT ![j] = (proc[j] = "running")]
    /\ UNCHANGED <<tclock, tjobs, dirs, proc, spawned, active_jobs, start_pc, mon_pc, cleanup_runs>>
    /\ UNCHANGED playlist
    /\ UNCHANGED <<scanVars, mediaVars, reqVars, libVars, sbVars, histVars>>

\* stop_job: the 10 s budget is spent and the process is killed.
StopKill(j) ==
    /\ stop_pc[j] = "waiting"
    /\ proc[j] = "running"
    /\ proc' = [proc EXCEPT ![j] = "exit_err"]
    /\ UNCHANGED <<tclock, tjobs, dirs, spawned, active_jobs, start_pc, mon_pc, stop_pc, cleanup_runs, q_sent>>
    /\ UNCHANGED playlist
    /\ UNCHANGED <<scanVars, mediaVars, reqVars, libVars, sbVars, histVars>>

\* stop_job: the process has exited; output_path is read and the row is
\* marked cancelled.
StopMark(j) ==
    /\ stop_pc[j] = "waiting"
    /\ proc[j] \in Exited
    /\ tjobs' = MarkCancelled(tjobs, j)
    /\ stop_pc' = [stop_pc EXCEPT ![j] =
                     IF tjobs[j].exists /\ tjobs[j].output_path
                     THEN "rmtree" ELSE "no_rmtree"]
    /\ UNCHANGED <<tclock, dirs, proc, spawned, active_jobs, start_pc, mon_pc, cleanup_runs, q_sent>>
    /\ UNCHANGED playlist
    /\ UNCHANGED <<scanVars, mediaVars, reqVars, libVars, sbVars, histVars>>

\* stop_job: the directory is removed, True is returned and the finally
\* clause pops the process.
StopReturn(j) ==
    /\ stop_pc[j] \in {"rmtree", "no_rmtree"}
    /\ dirs' = IF stop_pc[j] = "rmtree" THEN dirs \ {j} ELSE dirs
    /\ playlist' = IF stop_pc[j] = "rmtree" THEN playlist \ {j} ELSE playlist
    /\ active_jobs' = active_jobs \ {j}
    /\ stop_pc' = [stop_pc EXCEPT ![j] = "true"]
    /\ UNCHANGED <<tclock, tjobs, proc, spawned, start_pc, mon_pc, cleanup_runs, q_sent>>
    /\ UNCHANGED <<scanVars, mediaVars, reqVars, libVars, sbVars, histVars>>

\* The rows cleanup_transcode_files selects.
jobs_to_clean(rows) ==
    {j \in TJobIds : /\ rows[j].exists
                     /\ rows[j].status \in {"completed", "failed", "cancelled", "pending"}
                     /\ rows[j].output_path}

CleanupTranscodeFiles ==
    /\ cleanup_runs < MaxCleanups
    /\ dirs' = dirs \ jobs_to_clean(tjobs)
    /\ playlist' = playlist \ jobs_to_clean(tjobs)
    /\ tjobs' = [j \in TJobIds |-> IF j \in jobs_to_clean(tjobs) THEN NoJob ELSE tjobs[j]]
    /\ cleanup_runs' = cleanup_runs + 1
    /\ UNCHANGED <<tclock, proc, spawned, active_jobs, start_pc, mon_pc, stop_pc, q_sent>>
    /\ UNCHANGED <<scanVars, mediaVars, reqVars, libVars, sbVars, histVars>>

\* Time passes.
Tick ==
    /\ tclock + TickHours <= 1 + MaxTicks * TickHours
    /\ tclock' = tclock + TickHours
    /\ UNCHANGED <<tjobs, dirs, proc, spawned, active_jobs, start_pc, mon_pc, stop_pc, cleanup_runs, q_sent>>
    /\ UNCHANGED playlist
    /\ UNCHANGED <<scanVars, mediaVars, reqVars, libVars, sbVars, histVars>>

\* The scanner at rest while the transcoder runs.
ScanIdleInit ==
    /\ clock = 1
    /\ root_state = "dir"
    /\ disk = DiskPaths
    /\ env_changes = 0
    /\ db = [p \in DbPaths |-> NoRow]
    /\ sess = db
    /\ scan = IdleScan
    /\ job_states = [j \in JOB_REGISTRY |-> NewJobState]
    /\ history = <<>>
    /\ sched = [j \in AllJobIds |-> "none"]
    /\ cancel_resp = NoResp
    /\ runs = 0

TxNext ==
    \/ \E j \in TJobIds, t \in JobTypes : CreateJob(j, t)
    \/ \E j \in TJobIds : PrepareJob(j)
    \/ \E j \in TJobIds : SpawnRaises(j)
    \/ \E j \in TJobIds, rc \in Exited : SpawnExitsAtOnce(j, rc)
    \/ \E j \in TJobIds : SpawnRegisters(j)
    \/ \E j \in TJobIds : StartMonitor(j)
    \/ \E j \in TJobIds : StartReturns(j)
    \/ \E j \in TJobIds : StartFailed(j)
    \/ \E j \in TJobIds : RouterDeletesJob(j)
    \/ \E j \in TJobIds, rc \in Exited : ProcExits(j, rc)
    \/ \E j \in TJobIds : EncoderWritesPlaylist(j)
    \/ \E j \in TJobIds : MonitorProgress(j)
    \/ \E j \in TJobIds : MonitorMark(j)
    \/ \E j \in TJobIds : MonitorRaises(j)
    \/ \E j \in TJobIds : MonitorPop(j)
    \/ \E j \in TJobIds : StopNotRunning(j)
    \/ \E j \in TJobIds : StopRequest(j)
    \/ \E j \in TJobIds : StopKill(j)
    \/ \E j \in TJobIds : StopMark(j)
    \/ \E j \in TJobIds : StopReturn(j)
    \/ CleanupTranscodeFiles
    \/ Tick

TxInit == ScanIdleInit /\ TranscoderInit /\ MediaIdleInit /\ ReqIdleInit /\ LibIdleInit /\ SbIdleInit /\ HistIdleInit

TxSpec == TxInit /\ [][TxNext]_vars

\* The scheduling the event loop gives: a coroutine that can take its next
\* step takes it.  Clients, the encoder and the clock owe nothing.
TxFairness ==
    \A j \in TJobIds :
        /\ WF_vars(StartMonitor(j))
        /\ WF_vars(StartFailed(j))
        /\ WF_vars(MonitorMark(j))

TxLive == TxSpec /\ TxFairness

(***************************************************************************)
(* cleanup_deleted_media (services/scanner.py), the maintenance job.       *)
(***************************************************************************)
MaxDay == 4
MaxGrace == 2

\* mutant: the select has no deleted_at IS NOT NULL condition
files_to_delete_NoNullCheck(rows, cutoff_date) ==
    {p \in DbPaths : rows[p].exists /\ rows[p].deleted_at < cutoff_date}

\* lines 635-638: the rows with deleted_at IS NOT NULL and deleted_at < cutoff_date
files_to_delete(rows, cutoff_date) ==
    {p \in DbPaths : /\ rows[p].exists
                     /\ rows[p].deleted_at # NULL
                     /\ rows[p].deleted_at < cutoff_date}

\* session.delete(file): the row goes, and the relationships' cascade
\* "all, delete-orphan" takes its track records with it
DeleteRows(rows, gone) ==
    [p \in DbPaths |-> IF p \in gone THEN NoRow ELSE rows[p]]

\* cleanup_deleted_media(grace_period_days)
CleanupDeletedMedia(grace_period_days) ==
    LET cutoff_date == today - grace_period_days
        gone == files_to_delete(media, cutoff_date)
    IN  /\ media' = DeleteRows(media, gone)
        /\ tracks' = tracks \ gone
        /\ purge' = [count |-> Cardinality(gone),
                     grace_period_days |-> grace_period_days, now |-> today]
        /\ UNCHANGED today
        /\ UNCHANGED <<scanVars, txVars, reqVars, libVars, sbVars, histVars>>

\* a scan's reap pass soft-deletes a live row today
SoftDelete(p) ==
    /\ media[p].exists
    /\ media[p].deleted_at = NULL
    /\ media' = [media EXCEPT ![p].deleted_at = today]
    /\ UNCHANGED <<today, tracks, purge>>
    /\ UNCHANGED <<scanVars, txVars, reqVars, libVars, sbVars, histVars>>

DayPasses ==
    /\ today < MaxDay
    /\ today' = today + 1
    /\ UNCHANGED <<media, tracks, purge>>
    /\ UNCHANGED <<scanVars, txVars, reqVars, libVars, sbVars, histVars>>

\* a MediaFile table left by earlier scans: rows absent, live or soft-deleted
\* on day 1 or 2; some of the rows own tracks
MediaInit ==
    /\ today = 2
    /\ media \in [DbPaths -> {NoRow, Row(NULL, 1), Row(1, 1), Row(2, 1)}]
    /\ tracks \in SUBSET {p \in DbPaths : media[p].exists}
    /\ purge = NoPurge

CleanupNext ==
    \/ \E g \in 0..MaxGrace : CleanupDeletedMedia(g)
    \/ \E p \in DbPaths : SoftDelete(p)
    \/ DayPasses

CleanupInit == ScanIdleInit /\ TranscoderInit /\ MediaInit /\ ReqIdleInit /\ LibIdleInit /\ SbIdleInit /\ HistIdleInit

CleanupSpec == CleanupInit /\ [][CleanupNext]_vars

(***************************************************************************)
(* Requests for a one-off library scan: schedule_library_scan, called by   *)
(* the dashboard endpoints and by scan_all_libraries.                      *)
(***************************************************************************)
MaxRequests == 3
MaxSecond == 101
Libraries == {1, 2}

\* line 593: f"scan_library_{library_id}_{timestamp}"
JobIdOf(library_id, timestamp) == <<"scan_library", library_id, timestamp>>

\* no id: scheduler.add_job raised ConflictingIdError
NoId == <<>>

\* schedule_library_scan(scheduler, library_id): add_job without
\* replace_existing raises when a job with this id is in the job store;
\* otherwise the job is stored and _ensure_state gets or creates its JobState
schedule_library_scan(library_id) ==
    LET job_id == JobIdOf(library_id, now_s)
    IN  /\ Len(issued) < MaxRequests
        /\ IF job_id \in job_store
           THEN /\ issued' = Append(issued, [library_id |-> library_id, job_id |-> NoId])
                /\ UNCHANGED <<job_store, req_states>>
           ELSE /\ job_store' = job_store \cup {job_id}
                /\ req_states' = req_states \cup {job_id}
                /\ issued' = Append(issued, [library_id |-> library_id, job_id |-> job_id])
        /\ UNCHANGED now_s
        /\ UNCHANGED <<scanVars, txVars, mediaVars, libVars, sbVars, histVars>>

\* the scheduler runs a due job; a job with a date trigger leaves the store
DispatchJob(job_id) ==
    /\ job_id \in job_store
    /\ job_store' = job_store \ {job_id}
    /\ UNCHANGED <<now_s, req_states, issued>>
    /\ UNCHANGED <<scanVars, txVars, mediaVars, libVars, sbVars, histVars>>

SecondPasses ==
    /\ now_s < MaxSecond
    /\ now_s' = now_s + 1
    /\ UNCHANGED <<job_store, req_states, issued>>
    /\ UNCHANGED <<scanVars, txVars, mediaVars, libVars, sbVars, histVars>>

ReqNext ==
    \/ \E l \in Libraries : schedule_library_scan(l)
    \/ \E l \in Libraries, t \in 100..MaxSecond : DispatchJob(JobIdOf(l, t))
    \/ SecondPasses

ReqInit == ScanIdleInit /\ TranscoderInit /\ MediaIdleInit /\ ReqIdleInit /\ LibIdleInit /\ SbIdleInit /\ HistIdleInit

ReqSpec == ReqInit /\ [][ReqNext]_vars

(***************************************************************************)
(* Library administration (routers/v1/dashboard.py) and the scans of the   *)
(* libraries, each taken as a whole.                                       *)
(***************************************************************************)
Root2 == <<"m", "2">>
LibPaths == {LibRoot, Root2}

\* select(Library).where(Library.path == path)
PathTaken(path) ==
    \E i \in LibIds : libraries[i].exists /\ libraries[i].path = path

\* create_library: 409 when the path is taken, otherwise the row is inserted
create_library(id, path, enabled) ==
    /\ ~libraries[id].exists
    /\ ~PathTaken(path)
    /\ libraries' = [libraries EXCEPT ![id] =
                        [exists |-> TRUE, path |-> path, enabled |-> enabled]]
    /\ UNCHANGED <<mediafiles, lib_disk, lib_scans>>
    /\ UNCHANGED <<scanVars, txVars, mediaVars, reqVars, sbVars, histVars>>

\* delete_library: the Library row is deleted; no MediaFile is touched
delete_library(id) ==
    /\ libraries[id].exists
    /\ libraries' = [libraries EXCEPT ![id] = NoLibrary]
    /\ UNCHANGED <<mediafiles, lib_disk, lib_scans>>
    /\ UNCHANGED <<scanVars, txVars, mediaVars, reqVars, sbVars, histVars>>

\* update_library with a new path: 409 when another library has it
update_library_path(id, path) ==
    /\ libraries[id].exists
    /\ path # libraries[id].path
    /\ ~PathTaken(path)
    /\ libraries' = [libraries EXCEPT ![id].path = path]
    /\ UNCHANGED <<mediafiles, lib_disk, lib_scans>>
    /\ UNCHANGED <<scanVars, txVars, mediaVars, reqVars, sbVars, histVars>>

\* update_library with the enabled flag
update_library_enabled(id, enabled) ==
    /\ libraries[id].exists
    /\ libraries' = [libraries EXCEPT ![id].enabled = enabled]
    /\ UNCHANGED <<mediafiles, lib_disk, lib_scans>>
    /\ UNCHANGED <<scanVars, txVars, mediaVars, reqVars, sbVars, histVars>>

\* the video files os.walk finds under root
EnumeratedUnder(root) ==
    {p \in lib_disk : Under(p, root) /\ Lower(Suffix(p)) \in VIDEO_EXTENSIONS}

\* scan_library_path run to completion, not cancelled: every enumerated file
\* gets a live row, then the reap pass soft-deletes the unobserved rows
CompletedScanRows(rows, root) ==
    LET scanned == EnumeratedUnder(root)
        ingested == [p \in DbPaths |->
                        IF p \in scanned THEN Row(NULL, clock) ELSE rows[p]]
    IN  Reap(ingested, root, scanned)

\* scan_library_job of a library that exists, run to completion
ScanCompletes(id) ==
    /\ libraries[id].exists
    /\ mediafiles' = CompletedScanRows(mediafiles, libraries[id].path)
    /\ UNCHANGED <<libraries, lib_disk, lib_scans>>
    /\ UNCHANGED <<scanVars, txVars, mediaVars, reqVars, sbVars, histVars>>

\* a file is removed from disk
LibFileVanishes(p) ==
    /\ p \in lib_disk
    /\ lib_disk' = lib_disk \ {p}
    /\ UNCHANGED <<libraries, mediafiles, lib_scans>>
    /\ UNCHANGED <<scanVars, txVars, mediaVars, reqVars, sbVars, histVars>>

LibNext ==
    \/ \E i \in LibIds, r \in LibPaths, e \in BOOLEAN : create_library(i, r, e)
    \/ \E i \in LibIds : delete_library(i)
    \/ \E i \in LibIds, r \in LibPaths : update_library_path(i, r)
    \/ \E i \in LibIds, e \in BOOLEAN : update_library_enabled(i, e)
    \/ \E i \in LibIds : ScanCompletes(i)
    \/ \E p \in DbPaths : LibFileVanishes(p)

LibInit == ScanIdleInit /\ TranscoderInit /\ MediaIdleInit /\ ReqIdleInit /\ LibIdleInit /\ SbIdleInit /\ HistIdleInit

LibSpec == LibInit /\ [][LibNext]_vars

(***************************************************************************)
(* Two scan jobs whose roots are the same or nested, run interleaved: each *)
(* has its own session and its own scanned_paths; there is no lock.        *)
(***************************************************************************)
\* the roots of the two scans: a library and a directory inside it
OverlapRoots == {LibRoot, SubDir}

\* lines 335-376: the root is a directory; os.walk collects the video files
\* (no await in this pass)
WalkStarts(s, root) ==
    /\ lib_scans[s].pc = "idle"
    /\ lib_scans' = [lib_scans EXCEPT ![s] =
                        [pc |-> "walked", root |-> root,
                         scanned_paths |-> EnumeratedUnder(root)]]
    /\ UNCHANGED <<libraries, mediafiles, lib_disk>>
    /\ UNCHANGED <<scanVars, txVars, mediaVars, reqVars, sbVars, histVars>>

\* lines 384-465: every collected file gets a live row; the rows are
\* committed
IngestCommits(s) ==
    /\ lib_scans[s].pc = "walked"
    /\ mediafiles' = [p \in DbPaths |->
                         IF p \in lib_scans[s].scanned_paths
                         THEN Row(NULL, clock) ELSE mediafiles[p]]
    /\ lib_scans' = [lib_scans EXCEPT ![s].pc = "ingested"]
    /\ UNCHANGED <<libraries, lib_disk>>
    /\ UNCHANGED <<scanVars, txVars, mediaVars, reqVars, sbVars, histVars>>

\* lines 467-488: the reap pass of the scan, then its commit
ReapCommits(s) ==
    /\ lib_scans[s].pc = "ingested"
    /\ mediafiles' = Reap(mediafiles, lib_scans[s].root,
                          lib_scans[s].scanned_paths)
    /\ lib_scans' = [lib_scans EXCEPT ![s].pc = "returned"]
    /\ UNCHANGED <<libraries, lib_disk>>
    /\ UNCHANGED <<scanVars, txVars, mediaVars, reqVars, sbVars, histVars>>

\* a file is copied into the library tree
LibFileAppears(p) ==
    /\ p \notin lib_disk
    /\ lib_disk' = lib_disk \cup {p}
    /\ UNCHANGED <<libraries, mediafiles, lib_scans>>
    /\ UNCHANGED <<scanVars, txVars, mediaVars, reqVars, sbVars, histVars>>

OverlapNext ==
    \/ \E s \in ScanJobs, r \in OverlapRoots : WalkStarts(s, r)
    \/ \E s \in ScanJobs : IngestCommits(s)
    \/ \E s \in ScanJobs : ReapCommits(s)
    \/ \E p \in DbPaths : LibFileAppears(p)

\* any files on disk, each known to the database as live or not at all
OverlapInit ==
    /\ ScanIdleInit /\ TranscoderInit /\ MediaIdleInit /\ ReqIdleInit
    /\ SbIdleInit /\ HistIdleInit
    /\ libraries = [i \in LibIds |-> NoLibrary]
    /\ lib_disk \in SUBSET DbPaths
    /\ mediafiles \in [DbPaths -> {NoRow, Row(NULL, 1)}]
    /\ \A p \in DbPaths : mediafiles[p].exists => p \in lib_disk
    /\ lib_scans = [s \in ScanJobs |-> IdleWalk]

OverlapSpec == OverlapInit /\ [][OverlapNext]_vars

(***************************************************************************)
(* The playback decision: StreamBuilder.build_stream_info.                 *)
(***************************************************************************)
\* str.split(sep)
RECURSIVE split(_, _)
split(s, sep) ==
    IF \E i \in 1..Len(s) : s[i] = sep
    THEN LET i == CHOOSE k \in 1..Len(s) :
                      s[k] = sep /\ \A m \in 1..(k - 1) : s[m] # sep
         IN  <<SubSeq(s, 1, i - 1)>> \o split(SubSeq(s, i + 1, Len(s)), sep)
    ELSE <<s>>

\* str.lstrip(ch)
RECURSIVE lstrip(_, _)
lstrip(s, ch) ==
    IF s # <<>> /\ Head(s) = ch THEN lstrip(Tail(s), ch) ELSE s

\* str.strip(): leading and trailing blanks removed
RECURSIVE strip(_)
strip(s) ==
    IF s # <<>> /\ Head(s) = " " THEN strip(Tail(s))
    ELSE IF s # <<>> /\ s[Len(s)] = " " THEN strip(SubSeq(s, 1, Len(s) - 1))
    ELSE s

\* str.lower()
lower(s) ==
    [i \in 1..Len(s) |->
        CASE s[i] = "M" -> "m"
          [] s[i] = "K" -> "k"
          [] s[i] = "V" -> "v"
          [] s[i] = "P" -> "p"
          [] s[i] = "B" -> "b"
          [] s[i] = "T" -> "t"
          [] OTHER -> s[i]]

\* x in list
In(x, list) == \E i \in 1..Len(list) : list[i] = x

Digits == <<"0", "1", "2", "3", "4", "5", "6", "7", "8", "9">>

\* float(s) of a string: <<n>>, or <<>> where Python raises ValueError
RECURSIVE float(_)
float(s) ==
    IF s = <<>> \/ \E i \in 1..Len(s) : ~In(s[i], Digits) THEN <<>>
    ELSE IF Len(s) = 1 THEN <<(CHOOSE d \in 1..10 : Digits[d] = s[1]) - 1>>
    ELSE <<10 * float(SubSeq(s, 1, Len(s) - 1))[1]
             + (CHOOSE d \in 1..10 : Digits[d] = s[Len(s)]) - 1>>

\* str(n) of a natural number
RECURSIVE str(_)
str(n) ==
    IF n < 10 THEN <<Digits[n + 1]>>
    ELSE str(n \div 10) \o <<Digits[(n % 10) + 1]>>

PlaybackResult(can_play, reasons) ==
    [can_play |-> can_play, reasons |-> reasons]

\* the track attribute a condition property names, <<>> when unknown (of
\* the property map, the level and the channels; VideoRange is
\* get_video_range below)
get_track_property_value(track, property_name) ==
    CASE property_name = "VideoLevel" ->
             IF "level" \in DOMAIN track THEN track.level ELSE <<>>
      [] property_name = "AudioChannels" ->
             IF "channels" \in DOMAIN track THEN track.channels ELSE <<>>
      [] OTHER -> <<>>

\* TRUE when the condition fails
evaluate_condition(track, condition) ==
    LET actual_value == get_track_property_value(track, condition.Property)
        expected == float(condition.Value)
    IN  IF actual_value = <<>> THEN FALSE
        ELSE CASE condition.Condition = "LessThanEqual" ->
                      expected # <<>> /\ actual_value[1] > expected[1]
               [] condition.Condition = "Equals" ->
                      str(actual_value[1]) # condition.Value
               [] condition.Condition = "EqualsAny" ->
                      ~In(str(actual_value[1]), split(condition.Value, "|"))
               [] condition.Condition = "GreaterThanEqual" ->
                      expected # <<>> /\ actual_value[1] < expected[1]
               [] OTHER -> FALSE

\* <<reason>>, or <<>> for a property without a mapped reason
condition_to_transcode_reason(property_name) ==
    CASE property_name = "VideoLevel" -> <<"VideoLevelNotSupported">>
      [] property_name = "AudioChannels" -> <<"AudioChannelsNotSupported">>
      [] OTHER -> <<>>

\* the loop over the conditions of one codec profile, then over the
\* remaining profiles; a failed required condition returns at once
RECURSIVE check_conditions(_, _, _, _)
check_conditions(track, conditions, more_profiles, reasons) ==
    IF conditions = <<>>
    THEN IF more_profiles = <<>> THEN PlaybackResult(TRUE, reasons)
         ELSE check_conditions(track, Head(more_profiles).Conditions,
                               Tail(more_profiles), reasons)
    ELSE LET condition == Head(conditions)
             failed == evaluate_condition(track, condition)
             reasons2 == IF failed
                         THEN reasons \o
                              condition_to_transcode_reason(condition.Property)
                         ELSE reasons
         IN  IF failed /\ condition.IsRequired
             THEN PlaybackResult(FALSE, reasons2)
             ELSE check_conditions(track, Tail(conditions), more_profiles,
                                   reasons2)

\* every failed condition blocks, required or not
check_codec_constraints_AnyFailureBlocks(codec_profiles, track, codec, track_type) ==
    LET matching_profiles ==
            SelectSeq(codec_profiles,
                      LAMBDA p : p.Type = track_type /\ p.Codec = codec)
        result == check_conditions(track, <<>>, matching_profiles, <<>>)
    IN  PlaybackResult(result.reasons = <<>>, result.reasons)

check_codec_constraints(codec_profiles, track, codec, track_type) ==
    LET matching_profiles ==
            SelectSeq(codec_profiles,
                      LAMBDA p : p.Type = track_type /\ p.Codec = codec)
    IN  check_conditions(track, <<>>, matching_profiles, <<>>)

\* target_container is <<>> (None) or <<container>>
check_video_codec_support(builder, video_track, target_container) ==
    LET codec == video_track.codec
        container == IF target_container # <<>> THEN target_container[1]
                     ELSE mp4
        codec_supported ==
            \E i \in 1..Len(builder.DirectPlayProfiles) :
                LET profile == builder.DirectPlayProfiles[i]
                IN  /\ profile.Type = "Video"
                    /\ profile.VideoCodec # <<>>
                    /\ In(container, split(profile.Container, ","))
                    /\ In(codec, split(profile.VideoCodec, ","))
        constraint_result ==
            check_codec_constraints(builder.CodecProfiles, video_track,
                                    codec, "Video")
    IN  IF codec = <<>>
        THEN PlaybackResult(FALSE, <<"UnknownVideoStreamInfo">>)
        ELSE IF ~codec_supported
        THEN PlaybackResult(FALSE, <<"VideoCodecNotSupported">>)
        ELSE IF ~constraint_result.can_play
        THEN PlaybackResult(FALSE, constraint_result.reasons)
        ELSE PlaybackResult(TRUE, <<>>)

check_audio_codec_support(builder, audio_track, target_container) ==
    LET codec == audio_track.codec
        container == IF target_container # <<>> THEN target_container[1]
                     ELSE mp4
        codec_supported ==
            \E i \in 1..Len(builder.DirectPlayProfiles) :
                LET profile == builder.DirectPlayProfiles[i]
                IN  /\ profile.AudioCodec # <<>>
                    /\ In(codec, split(profile.AudioCodec, ","))
                    /\ \/ profile.Type = "Audio"
                       \/ /\ profile.Type = "Video"
                          /\ In(container, split(profile.Container, ","))
        constraint_result ==
            check_codec_constraints(builder.CodecProfiles, audio_track,
                                    codec, "Audio")
    IN  IF codec = <<>>
        THEN PlaybackResult(FALSE, <<"UnknownAudioStreamInfo">>)
        ELSE IF ~codec_supported
        THEN PlaybackResult(FALSE, <<"AudioCodecNotSupported">>)
        ELSE IF ~constraint_result.can_play
        THEN PlaybackResult(FALSE, constraint_result.reasons)
        ELSE PlaybackResult(TRUE, <<>>)

is_container_supported(builder, container, media_type) ==
    \E i \in 1..Len(builder.DirectPlayProfiles) :
        LET profile == builder.DirectPlayProfiles[i]
            parts == split(profile.Container, ",")
            supported_containers ==
                [k \in 1..Len(parts) |-> lower(strip(parts[k]))]
        IN  /\ profile.Type = media_type \/ media_type = "Video"
            /\ In(lower(container), supported_containers)

\* Container of the StreamInfo and of the direct-play check
container_of(media_file) ==
    IF media_file.file_extension # <<>>
    THEN lstrip(media_file.file_extension, ".")
    ELSE <<"u", "n", "k", "n", "o", "w", "n">>

check_direct_play(builder, media_file) ==
    LET container == container_of(media_file)
        video_codec_result ==
            check_video_codec_support(builder, media_file.video_tracks[1],
                                      <<>>)
        audio_codec_result ==
            check_audio_codec_support(builder, media_file.audio_tracks[1],
                                      <<>>)
    IN  IF ~is_container_supported(builder, container, "Video")
        THEN PlaybackResult(FALSE, <<"ContainerNotSupported">>)
        ELSE IF media_file.video_tracks # <<>>
                /\ ~video_codec_result.can_play
        THEN PlaybackResult(FALSE, video_codec_result.reasons)
        ELSE IF media_file.audio_tracks # <<>>
                /\ ~audio_codec_result.can_play
        THEN PlaybackResult(FALSE, audio_codec_result.reasons)
        ELSE PlaybackResult(TRUE, <<>>)

check_direct_stream(builder, media_file) ==
    LET video_codec_result ==
            check_video_codec_support(builder, media_file.video_tracks[1],
                                      <<mp4>>)
        audio_codec_result ==
            check_audio_codec_support(builder, media_file.audio_tracks[1],
                                      <<mp4>>)
    IN  IF media_file.video_tracks # <<>> /\ ~video_codec_result.can_play
        THEN PlaybackResult(FALSE, video_codec_result.reasons)
        ELSE IF media_file.audio_tracks # <<>>
                /\ ~audio_codec_result.can_play
        THEN PlaybackResult(FALSE, audio_codec_result.reasons)
        ELSE PlaybackResult(TRUE, <<>>)

\* (video_ok, audio_ok) for the remux target
needs_audio_transcode(builder, media_file) ==
    [video_ok |->
        IF media_file.video_tracks # <<>>
        THEN check_video_codec_support(builder, media_file.video_tracks[1],
                                       <<mp4>>).can_play
        ELSE TRUE,
     audio_ok |->
        IF media_file.audio_tracks # <<>>
        THEN check_audio_codec_support(builder, media_file.audio_tracks[1],
                                       <<mp4>>).can_play
        ELSE TRUE]

\* dict.get(key): <<>> for a missing key
get(dict, key) == IF key \in DOMAIN dict THEN <<dict[key]>> ELSE <<>>

TranscodeSettings(VideoCodec, AudioCodec, AudioBitrate, MaxWidth, MaxHeight, IsRemuxOnly) ==
    [VideoCodec |-> VideoCodec, AudioCodec |-> AudioCodec,
     AudioBitrate |-> AudioBitrate, MaxWidth |-> MaxWidth,
     MaxHeight |-> MaxHeight, IsRemuxOnly |-> IsRemuxOnly]

\* the StreamInfo build_stream_info starts from
StreamInfo(media_file) ==
    [Container |-> container_of(media_file),
     PlayMethod |-> "DirectPlay",
     TranscodeReasons |-> <<>>,
     IsRemuxOnly |-> FALSE,
     DirectStreamUrl |-> "None",
     TranscodingUrl |-> "None",
     TranscodingContainer |-> "None",
     TranscodingVideoCodec |-> "None",
     TranscodingAudioCodec |-> "None",
     TranscodingType |-> "None",
     TranscodeSettings |-> <<>>]

\* `if requested_resolution:` is the truth value of an Optional dict
resolution_requested_Never(requested_resolution) == FALSE

resolution_requested(requested_resolution) ==
    requested_resolution # <<>> /\ DOMAIN requested_resolution[1] # {}

build_stream_info(builder, media_file, enable_direct_play, enable_direct_stream, enable_transcoding, requested_resolution) ==
    LET stream_info == StreamInfo(media_file)
        direct_play_result == check_direct_play(builder, media_file)
        \* TranscodeReasons after the direct-play step did not return
        reasons1 == IF enable_direct_play THEN direct_play_result.reasons
                    ELSE <<>>
        direct_stream_result == check_direct_stream(builder, media_file)
        \* TranscodeReasons after the direct-stream step did not return
        reasons2 == IF enable_direct_stream
                    THEN reasons1 \o direct_stream_result.reasons
                    ELSE reasons1
        ok == needs_audio_transcode(builder, media_file)
    IN  IF resolution_requested(requested_resolution)
        THEN [stream_info EXCEPT
                 !.PlayMethod = "Transcode",
                 !.TranscodingUrl = "/api/v1/stream/{id}/master.m3u8",
                 !.TranscodingContainer = "mp4",
                 !.TranscodingVideoCodec = "h264",
                 !.TranscodingAudioCodec = "aac",
                 !.TranscodingType = "full",
                 !.TranscodeSettings =
                     <<TranscodeSettings("h264", "aac", <<>>,
                           get(requested_resolution[1], "width"),
                           get(requested_resolution[1], "height"),
                           FALSE)>>]
        ELSE IF enable_direct_play /\ direct_play_result.can_play
        THEN [stream_info EXCEPT
                 !.PlayMethod = "DirectPlay",
                 !.DirectStreamUrl = "/api/v1/stream/{id}",
                 !.TranscodeReasons = direct_play_result.reasons]
        ELSE IF enable_direct_stream /\ direct_stream_result.can_play
        THEN [stream_info EXCEPT
                 !.PlayMethod = "DirectStream",
                 !.TranscodingUrl = "/api/v1/hls/{id}/remux",
                 !.TranscodingContainer = "ts",
                 !.TranscodingType = "remux",
                 !.IsRemuxOnly = TRUE,
                 !.TranscodeReasons = reasons1,
                 !.TranscodeSettings =
                     <<TranscodeSettings("copy", "copy", <<>>, <<>>, <<>>,
                                         TRUE)>>]
        ELSE IF enable_direct_stream /\ ok.video_ok /\ ~ok.audio_ok
        THEN [stream_info EXCEPT
                 !.PlayMethod = "Transcode",
                 !.TranscodingUrl = "/api/v1/stream/{id}/master.m3u8",
                 !.TranscodingContainer = "ts",
                 !.TranscodingVideoCodec = "copy",
                 !.TranscodingAudioCodec = "aac",
                 !.TranscodingType = "audio-only",
                 !.TranscodeReasons =
                     Append(reasons2, "AudioTranscodeRequired"),
                 !.TranscodeSettings =
                     <<TranscodeSettings("copy", "aac", <<128000>>, <<>>,
                                         <<>>, FALSE)>>]
        ELSE IF enable_transcoding
        THEN [stream_info EXCEPT
                 !.PlayMethod = "Transcode",
                 !.TranscodingUrl = "/api/v1/stream/{id}/master.m3u8",
                 !.TranscodingContainer = "mp4",
                 !.TranscodingVideoCodec = "h264",
                 !.TranscodingAudioCodec = "aac",
                 !.TranscodingType = "full",
                 !.TranscodeReasons = reasons2]
        ELSE [stream_info EXCEPT
                 !.PlayMethod = "Transcode",
                 !.TranscodingType = "full",
                 !.TranscodeReasons = Append(reasons2, "DirectPlayError")]

\* the media files of the decisions: extension, first video track, first
\* audio track (a track list is <<>> or holds the first track)
FileExtensions ==
    {<<>>, <<".">> \o mp4, <<".">> \o mkv, <<".", "M", "K", "V">>}

VideoTrackLists ==
    {<<>>} \cup {<<[codec |-> c, level |-> l]>> :
                    c \in {h264, hevc}, l \in {<<40>>, <<51>>}}
           \cup {<<[codec |-> <<>>, level |-> <<>>]>>,
                 <<[codec |-> h264, level |-> <<>>]>>}

AudioTrackLists ==
    {<<>>, <<[codec |-> aac, channels |-> <<2>>]>>,
     <<[codec |-> aac, channels |-> <<6>>]>>,
     <<[codec |-> dts, channels |-> <<6>>]>>}

\* the DirectPlayProfile entries a client may send
DirectPlayProfile(Type, Container, VideoCodec, AudioCodec) ==
    [Type |-> Type, Container |-> Container, VideoCodec |-> VideoCodec,
     AudioCodec |-> AudioCodec]

ProfileEntries ==
    <<DirectPlayProfile("Video", mp4, h264, aac),
      DirectPlayProfile("Video", mkv \o <<",", " ">> \o mp4,
                        h264 \o <<",">> \o hevc, dts),
      DirectPlayProfile("Video", mkv, hevc, <<>>),
      DirectPlayProfile("Audio", <<"m", "p", "3">>, <<>>, dts)>>

\* every sub-list of ProfileEntries
DirectPlayProfileLists ==
    {SelectSeq([i \in 1..Len(ProfileEntries) |-> i], LAMBDA i : i \in S) :
        S \in SUBSET (1..Len(ProfileEntries))}

DeviceProfileCondition(Condition, Property, Value, IsRequired) ==
    [Condition |-> Condition, Property |-> Property, Value |-> Value,
     IsRequired |-> IsRequired]

CodecProfileLists ==
    {<<>>,
     <<[Type |-> "Video", Codec |-> h264, Conditions |->
          <<DeviceProfileCondition("LessThanEqual", "VideoLevel",
                                   <<"4", "1">>, TRUE)>>]>>,
     <<[Type |-> "Video", Codec |-> h264, Conditions |->
          <<DeviceProfileCondition("LessThanEqual", "VideoLevel",
                                   <<"4", "1">>, FALSE)>>]>>,
     <<[Type |-> "Audio", Codec |-> aac, Conditions |->
          <<DeviceProfileCondition("EqualsAny", "AudioChannels",
                                   <<"1", "|", "2">>, TRUE)>>]>>,
     <<[Type |-> "Video", Codec |-> h264, Conditions |->
          <<DeviceProfileCondition("LessThanEqual", "VideoLevel",
                                   <<"4", "1">>, TRUE),
            DeviceProfileCondition("Equals", "VideoLevel",
                                   <<"4", "0">>, FALSE)>>]>>,
     <<[Type |-> "Video", Codec |-> h264, Conditions |->
          <<DeviceProfileCondition("GreaterThanEqual", "VideoLevel",
                                   <<"5", "2">>, FALSE)>>],
       [Type |-> "Video", Codec |-> h264, Conditions |->
          <<DeviceProfileCondition("Equals", "VideoLevel",
                                   <<"4", "0">>, TRUE)>>]>>}

RequestedResolutions ==
    {<<>>, << <<>> >>, <<[width |-> 1280, height |-> 720]>>,
     <<[width |-> 1280]>>}

\* a playback-info request arrives: any media file, profile and options
SbInit ==
    /\ ScanIdleInit /\ TranscoderInit /\ MediaIdleInit /\ ReqIdleInit
    /\ LibIdleInit
    /\ sb_media \in [file_extension : FileExtensions,
                     video_tracks : VideoTrackLists,
                     audio_tracks : AudioTrackLists]
    /\ \E l \in DirectPlayProfileLists, c \in CodecProfileLists :
          sb_profile =
              [DirectPlayProfiles |-> [i \in 1..Len(l) |-> ProfileEntries[l[i]]],
               CodecProfiles |-> c]
    /\ sb_options \in [enable_direct_play : BOOLEAN,
                       enable_direct_stream : BOOLEAN,
                       enable_transcoding : BOOLEAN,
                       requested_resolution : RequestedResolutions]
    /\ sb_info = <<>>
    /\ VrIdle
    /\ HistIdleInit

\* the call of build_stream_info
Decide ==
    /\ sb_info = <<>>
    /\ sb_info' = <<build_stream_info(sb_profile, sb_media,
                                      sb_options.enable_direct_play,
                                      sb_options.enable_direct_stream,
                                      sb_options.enable_transcoding,
                                      sb_options.requested_resolution)>>
    /\ UNCHANGED <<sb_media, sb_profile, sb_options, vr_track, vr_value>>
    /\ UNCHANGED <<scanVars, txVars, mediaVars, reqVars, libVars, histVars>>

SbNext == Decide

SbSpec == SbInit /\ [][SbNext]_vars

(***************************************************************************)
(* The VideoRange of a track: StreamBuilder._get_video_range.              *)
(***************************************************************************)
\* sub in s
Contains(sub, s) ==
    \E i \in 0..(Len(s) - Len(sub)) : SubSeq(s, i + 1, i + Len(sub)) = sub

bt2020 == <<"b", "t", "2", "0", "2", "0">>

rec2020 == <<"r", "e", "c", "2", "0", "2", "0">>

smpte2084 == <<"s", "m", "p", "t", "e", "2", "0", "8", "4">>

hlg == <<"h", "l", "g">>

arib_std_b67 == <<"a", "r", "i", "b", "-", "s", "t", "d", "-", "b", "6", "7">>

bt709 == <<"b", "t", "7", "0", "9">>

\* "HDR" or "SDR", or "AttributeError" where .lower() is called on None.
\* A VideoTrack has color_space, color_primaries and color_transfer; it has
\* no attribute transfer_characteristics, so that getattr yields its default.
get_video_range(track) ==
    LET transfer_characteristics == <<>>
        hdr_indicators == {bt2020, rec2020, smpte2084, hlg, arib_std_b67}
    IN  IF track.color_space = <<>> \/ track.color_primaries = <<>>
        THEN "AttributeError"
        ELSE LET color_space == lower(track.color_space[1])
                 color_primaries == lower(track.color_primaries[1])
                 is_hdr ==
                     \/ \E indicator \in hdr_indicators :
                            Contains(indicator, color_space)
                     \/ \E indicator \in {bt2020, rec2020} :
                            Contains(indicator, color_primaries)
                     \/ \E indicator \in {smpte2084, arib_std_b67, hlg} :
                            Contains(indicator, lower(transfer_characteristics))
             IN  IF is_hdr THEN "HDR" ELSE "SDR"

\* the colour attributes the scanner stores: NULL, empty, or a name
ColourValues ==
    [color_space : {<<>>, << <<>> >>, <<bt709>>, <<bt2020 \o <<"n", "c">> >>},
     color_primaries : {<<>>, << <<>> >>, <<bt709>>, <<bt2020>>,
                        <<<<"B", "T", "2", "0", "2", "0">>>>},
     color_transfer : {<<>>, <<bt709>>, <<smpte2084>>, <<arib_std_b67>>,
                       <<hlg>>}]

\* a condition on VideoRange is about to be evaluated for some track
VrInit ==
    /\ ScanIdleInit /\ TranscoderInit /\ MediaIdleInit /\ ReqIdleInit
    /\ LibIdleInit /\ SbRequestIdle
    /\ vr_track \in ColourValues
    /\ vr_value = <<>>
    /\ HistIdleInit

\* _get_track_property_value(track, "VideoRange")
EvaluateVideoRange ==
    /\ vr_value = <<>>
    /\ vr_value' = <<get_video_range(vr_track)>>
    /\ UNCHANGED <<sb_media, sb_profile, sb_options, sb_info, vr_track>>
    /\ UNCHANGED <<scanVars, txVars, mediaVars, reqVars, libVars, histVars>>

VrNext == EvaluateVideoRange

VrSpec == VrInit /\ [][VrNext]_vars

(***************************************************************************)
(* The execution history: a deque of at most history_maxlen records.       *)
(***************************************************************************)
history_maxlen == 100

\* how many submitted events the history sees
MaxSubmitted == 103

\* deque.append with maxlen: a full deque drops its oldest element
deque_append_DropsNewest(d, x) ==
    IF Len(d) = history_maxlen THEN d ELSE Append(d, x)

deque_append(d, x) ==
    IF Len(d) = history_maxlen THEN Append(Tail(d), x) ELSE Append(d, x)

\* list(reversed(_JOB_EXECUTION_HISTORY))
get_job_history(d) == [i \in 1..Len(d) |-> d[Len(d) + 1 - i]]

\* EVENT_JOB_SUBMITTED of the n-th run: one running record is appended
HistSubmitted ==
    /\ submitted_events < MaxSubmitted
    /\ RunningRecord(job_execution_history, ScanJob) = 0
    /\ submitted_events' = submitted_events + 1
    /\ job_execution_history' =
           deque_append(job_execution_history,
                        [job_id |-> ScanJob, job_type |-> "one-off",
                         started_at |-> submitted_events + 1,
                         completed_at |-> NULL, status |-> "running",
                         error |-> ""])
    /\ UNCHANGED history_view
    /\ UNCHANGED <<scanVars, txVars, mediaVars, reqVars, libVars, sbVars>>

\* EVENT_JOB_EXECUTED: the running record of the job is closed
HistExecuted ==
    /\ RunningRecord(job_execution_history, ScanJob) # 0
    /\ job_execution_history' =
           UpdateExecutionRecord(job_execution_history, ScanJob,
                                 "completed", "")
    /\ UNCHANGED <<submitted_events, history_view>>
    /\ UNCHANGED <<scanVars, txVars, mediaVars, reqVars, libVars, sbVars>>

\* GET of the history
GetJobHistory ==
    /\ history_view' = get_job_history(job_execution_history)
    /\ history_view' # history_view
    /\ UNCHANGED <<job_execution_history, submitted_events>>
    /\ UNCHANGED <<scanVars, txVars, mediaVars, reqVars, libVars, sbVars>>

HistNext == HistSubmitted \/ HistExecuted \/ GetJobHistory

HistInit == ScanIdleInit /\ TranscoderInit /\ MediaIdleInit /\ ReqIdleInit /\ LibIdleInit /\ SbIdleInit /\ HistIdleInit

HistSpec == HistInit /\ [][HistNext]_vars

(***************************************************************************)
(* Properties of the scanner and the job registry.                         *)
(***************************************************************************)
Range(q) == {q[i] : i \in 1..Len(q)}

\* scan_library_path has returned (the job's event is not yet delivered)
Returned == scan.pc = "returned"

\* the most recent execution record of job j, or 0
LastRecord(j) ==
    LET S == {i \in 1..Len(history) : history[i].job_id = j}
    IN  IF S = {} THEN 0 ELSE CHOOSE i \in S : \A k \in S : k <= i

\* C1: a scan that ends cancelled has run no reap pass: no MediaFile went from
\* deleted_at = NULL to non-NULL during it, and the returned stats have deleted = 0.
C1_NoReapOnCancel ==
    (Returned /\ scan.stats.cancelled) =>
        /\ scan.stats.deleted = 0
        /\ \A p \in DbPaths :
              scan.db_at_start[p].deleted_at = NULL =>
                  db[p].deleted_at = NULL /\ sess[p].deleted_at = NULL

\* a scan cancelled during ingest, after a file was processed, with a live row
\* that a reap pass would have soft-deleted
C1_Witness ==
    /\ Returned /\ scan.stats.cancelled
    /\ scan.idx >= 1
    /\ ToReap(db, LibRoot, scan.scanned_paths) # {}

\* C2: once the job body has marked the run cancelled, the JobState status is
\* "cancelled" and stays so, also after the executed event of that run, until
\* the job id is submitted again (the run's record is then still the most
\* recent one of the job id).
C2_CancelledIsTerminal ==
    LET i == LastRecord(ScanJob)
    IN  (i # 0 /\ history[i].status = "cancelled") =>
            job_states[ScanJob].status = "cancelled"

\* C4 as stated: a scan that ends cancelled leaves deleted_at of every
\* MediaFile as it was when the scan started.
C4_CancelledChangesNoDeletedAt ==
    (Returned /\ scan.stats.cancelled) =>
        \A p \in DbPaths : db[p].deleted_at = scan.db_at_start[p].deleted_at

\* C4 amended: a scan that ends cancelled leaves the row of every file that
\* ingest did not process before the cancellation exactly as it was; a file
\* processed before the cancellation has a committed row with deleted_at NULL
\* (a soft-deleted one was restored).
C4_CancelledTouchesOnlyProcessed ==
    (Returned /\ scan.stats.cancelled) =>
        \A p \in DbPaths :
            IF p \in scan.scanned_paths
            THEN db[p].exists /\ db[p].deleted_at = NULL
            ELSE db[p] = scan.db_at_start[p]

\* a cancelled scan that restored a soft-deleted file before the cancellation
\* and left another soft-deleted row alone
C4_Witness ==
    /\ Returned /\ scan.stats.cancelled
    /\ scan.stats.restored >= 1
    /\ \E p \in DbPaths : p \notin scan.scanned_paths /\ db[p].deleted_at # NULL

\* C5 as stated: after any scan that is not cancelled, every MediaFile under
\* the library root that the pass did not observe is soft-deleted.
C5_UnobservedAreDeleted ==
    (Returned /\ ~scan.stats.cancelled) =>
        \A p \in DbPaths :
            (db[p].exists /\ Under(p, LibRoot) /\ p \notin scan.scanned_paths) =>
                db[p].deleted_at # NULL

\* C5 amended: the same, for a scan whose library root was an existing
\* directory when the scan started (otherwise the scan returns at once).
C5_UnobservedAreDeletedIfRootOk ==
    (Returned /\ ~scan.stats.cancelled /\ scan.root_ok) =>
        \A p \in DbPaths :
            (db[p].exists /\ Under(p, LibRoot) /\ p \notin scan.scanned_paths) =>
                db[p].deleted_at # NULL

\* a completed scan that soft-deleted a row of the sub-directory which was live
\* when the scan started
C5_Witness ==
    /\ Returned /\ ~scan.stats.cancelled /\ scan.root_ok
    /\ scan.stats.deleted >= 1
    /\ B1 \notin scan.scanned_paths
    /\ scan.db_at_start[B1].exists /\ scan.db_at_start[B1].deleted_at = NULL
    /\ db[B1].deleted_at = clock

\* the row of p after a pass that observed p
ObservedRowOk(p) ==
    /\ db[p].exists
    /\ db[p].deleted_at = NULL
    /\ db[p].scanned_at >= scan.started_at

\* C6 as stated: after a pass, every enumerated path has a row with deleted_at
\* NULL and scanned_at not earlier than the start of the pass.
C6_EnumeratedAreLive ==
    Returned => \A p \in Range(scan.video_files) : ObservedRowOk(p)

\* C6 amended: after a pass, every enumerated path whose ingest step ran has
\* such a row, and in a pass that is not cancelled the ingest step ran for
\* every enumerated path.
C6_IngestedAreLive ==
    Returned =>
        /\ \A p \in scan.scanned_paths : ObservedRowOk(p)
        /\ ~scan.stats.cancelled => Range(scan.video_files) \subseteq scan.scanned_paths

\* a pass after a clock tick that ingested a new file and a soft-deleted one
C6_Witness ==
    /\ Returned
    /\ scan.started_at > 1
    /\ \E p, q \in scan.scanned_paths :
          /\ ~scan.db_at_start[p].exists
          /\ scan.db_at_start[q].exists /\ scan.db_at_start[q].deleted_at # NULL

\* C7: if the library root disappears while a scan of it is enumerating or
\* ingesting, the scan does not raise (the job does not end failed) and no
\* MediaFile that the scan did not reach is soft-deleted by it.
C7_RootLossHaltsCleanly ==
    scan.root_lost =>
        /\ scan.pc # "raised"
        /\ Returned =>
              \A p \in DbPaths :
                  p \notin scan.scanned_paths =>
                      db[p].deleted_at = scan.db_at_start[p].deleted_at

\* the step is an answer of the cancel endpoint for job j
CancelAnswered(j) == cancel_resp' # cancel_resp /\ cancel_resp'.job_id = j

\* C11: a cancel request for a job whose status is already cancelled is
\* answered with success and leaves the job's state as it is.
C11_SecondCancelSucceeds ==
    [][\A j \in CancelTargets :
          (/\ CancelAnswered(j)
           /\ j \in DOMAIN job_states
           /\ job_states[j].status = "cancelled") =>
              /\ cancel_resp'.code = 200
              /\ job_states' = job_states]_vars

IsSubmitted == sched[ScanJob] = "scheduled" /\ sched'[ScanJob] = "running"
IsExecuted == sched[ScanJob] = "running" /\ sched'[ScanJob] = "none" /\ scan.pc = "returned"
IsError == sched[ScanJob] = "running" /\ sched'[ScanJob] = "none" /\ scan.pc = "raised"
IsMissed == sched[ScanJob] = "scheduled" /\ sched'[ScanJob] = "none"

C14_RestoreCountsAsUpdate ==
    (/\ Returned
     /\ ~scan.stats.cancelled
     /\ Range(scan.video_files) = {A1, B1}
     /\ scan.scanned_paths = {A1, B1}
     /\ scan.db_at_start[A1].exists /\ scan.db_at_start[A1].deleted_at # NULL
     /\ scan.db_at_start[B1].exists /\ scan.db_at_start[B1].deleted_at = NULL
     /\ ~scan.db_at_start[X1].exists) =>
        /\ db[A1].deleted_at = NULL
        /\ scan.stats = [new |-> 0, updated |-> 2, deleted |-> 0, restored |-> 1,
                         cancelled |-> FALSE]

\* the media files of the library on disk
MediaFilesOnDisk ==
    {p \in disk : Under(p, LibRoot) /\ Lower(Suffix(p)) \in VIDEO_EXTENSIONS}

\* the second of two scans has returned; the first ran to completion, the
\* library did not change and the second was not cancelled
SecondScanBackToBack ==
    /\ Returned
    /\ Len(history) = 2
    /\ history[1].status = "completed"
    /\ env_changes = 0
    /\ root_state = "dir"
    /\ ~scan.stats.cancelled

\* C15: of two scans run back to back on an unchanged library, without
\* cancellation, the second returns new = 0, restored = 0, deleted = 0 and
\* updated = the number of media files in the library.
C15_DiffLaw ==
    SecondScanBackToBack =>
        /\ scan.stats.new = 0
        /\ scan.stats.restored = 0
        /\ scan.stats.deleted = 0
        /\ scan.stats.updated = Cardinality(MediaFilesOnDisk)

\* the second scan updated two files, and a row the first scan reaped is still
\* soft-deleted
C15_Witness ==
    /\ SecondScanBackToBack
    /\ scan.stats.updated = 2
    /\ db[X1].exists /\ db[X1].deleted_at # NULL

\* the scan takes a step of its enumeration while cancellation is requested
CancelSeenInWalk ==
    /\ scan.pc = "walk"
    /\ DirReadable(Head(scan.walk_todo))
    /\ is_cancellation_requested(ScanJob)
    /\ scan' # scan
    /\ UNCHANGED <<root_state, disk>>

\* C16: when cancellation is observed during enumeration, the scan returns
\* all-zero stats with cancelled = true, the job is marked cancelled, and no
\* MediaFile row has been changed by the scan.
C16_CancelInEnumeration ==
    [][CancelSeenInWalk =>
          /\ scan'.pc = "returned"
          /\ scan'.stats = [new |-> 0, updated |-> 0, deleted |-> 0, restored |-> 0,
                            cancelled |-> TRUE]
          /\ job_states'[ScanJob].status = "cancelled"
          /\ ~job_states'[ScanJob].cancellation_requested
          /\ history'[LastRecord(ScanJob)].status = "cancelled"
          /\ db' = db
          /\ db' = scan.db_at_start]_vars

\* a scan cancelled during enumeration has returned; the library has a live
\* row without a file and a file without a row
C16_Witness ==
    /\ Returned
    /\ scan.was_cancelled
    /\ scan.walk_todo # <<>>
    /\ job_states[ScanJob].status = "cancelled"
    /\ db[A1].exists /\ db[A1].deleted_at = NULL /\ ~OnDisk(A1)
    /\ ~db[B1].exists /\ OnDisk(B1)

\* a scan cancelled in its ingest loop has returned
CancelledInIngest ==
    Returned /\ scan.was_cancelled /\ scan.walk_todo = <<>>

\* C17: a scan cancelled during ingest after N files returns stats with
\* new + updated + restored = N and deleted = 0, and the N processed files
\* are committed: each has a live row with this scan's scanned_at.
C17_CancelInIngest ==
    CancelledInIngest =>
        /\ Cardinality(scan.scanned_paths) = scan.idx
        /\ scan.stats.new + scan.stats.updated + scan.stats.restored = scan.idx
        /\ scan.stats.deleted = 0
        /\ scan.stats.cancelled
        /\ \A p \in scan.scanned_paths :
              /\ db[p].exists
              /\ db[p].deleted_at = NULL
              /\ db[p].scanned_at = scan.started_at
        /\ \A p \in DbPaths \ scan.scanned_paths : db[p] = scan.db_at_start[p]

\* the scan was cancelled after the first of two files, which was new
C17_Witness ==
    /\ CancelledInIngest
    /\ scan.idx = 1
    /\ Len(scan.video_files) = 2
    /\ scan.stats.new = 1
    /\ scan.pending_changes = 0

\* the published files_processed of job j does not decrease in the step
ProcessedMonotone(j) ==
    job_states[j].files_processed # NoInt =>
        job_states'[j].files_processed >= job_states[j].files_processed

\* files_processed <= files_total after the step, when both are set
ProcessedWithinTotal(j) ==
    (job_states'[j].files_processed # NoInt /\ job_states'[j].files_total # NoInt) =>
        job_states'[j].files_processed <= job_states'[j].files_total

\* a step that publishes files_processed finds or publishes files_total
TotalBeforeProcessed(j) ==
    job_states'[j].files_processed # job_states[j].files_processed =>
        job_states'[j].files_total # NoInt

\* C18: within a single job id the published files_processed never decreases,
\* files_processed <= files_total whenever both are set, and files_total is
\* published before the first files_processed update.
C18_ProgressMonotoneWithinJobId ==
    [][\A j \in DOMAIN job_states :
          ProcessedMonotone(j) /\ ProcessedWithinTotal(j) /\ TotalBeforeProcessed(j)]_vars

\* the step is a call of cleanup_deleted_media that did something or
\* returned something new
IsCleanup == purge' # purge

\* the rows that are soft-deleted for longer than the grace period of the call
PastGrace(grace) ==
    {p \in DbPaths : /\ media[p].exists
                     /\ media[p].deleted_at # NULL
                     /\ today - media[p].deleted_at > grace}

\* C19: cleanup_deleted_media destroys exactly the MediaFiles whose deleted_at
\* is earlier than now minus the grace period, with their tracks, and returns
\* their number; a MediaFile whose deleted_at is NULL or within the grace
\* period is never destroyed and keeps its tracks.
C19_CleanupDestroysExactlyPastGrace ==
    [][/\ IsCleanup =>
            LET old == PastGrace(purge'.grace_period_days)
            IN  /\ purge'.count = Cardinality(old)
                /\ \A p \in old : ~media'[p].exists /\ p \notin tracks'
                /\ \A p \in DbPaths \ old :
                      media'[p] = media[p] /\ (p \in tracks' <=> p \in tracks)
       /\ \A p \in DbPaths :
            (media[p].exists /\ ~media'[p].exists) =>
                /\ IsCleanup
                /\ media[p].deleted_at # NULL
                /\ media[p].deleted_at < today - purge'.grace_period_days]_vars

\* a call with a grace period of one day destroyed a row; a live row with
\* tracks and a row soft-deleted within the grace period are still there
C19_Witness ==
    /\ purge.count >= 1
    /\ purge.grace_period_days = 1
    /\ purge.now = today
    /\ \E p \in DbPaths : media[p].exists /\ media[p].deleted_at = NULL /\ p \in tracks
    /\ \E p \in DbPaths : /\ media[p].exists
                           /\ media[p].deleted_at # NULL
                           /\ today - media[p].deleted_at <= 1

\* C20: any two requests for a one-off library scan, two for the same library
\* in the same second included, get distinct job ids, and every request has
\* its own scheduled job and its own JobState.
C20_DistinctJobIds ==
    /\ \A i \in 1..Len(issued) : issued[i].job_id # NoId
    /\ \A i, k \in 1..Len(issued) : i # k => issued[i].job_id # issued[k].job_id
    /\ Cardinality(req_states) = Len(issued)

\* C21: after any sequence of library create / update / delete operations
\* and completed scans, every MediaFile that is not soft-deleted has a
\* file_path under the root of some enabled Library.
C21_LiveFilesUnderActiveLibrary ==
    \A p \in DbPaths :
        (mediafiles[p].exists /\ mediafiles[p].deleted_at = NULL) =>
            \E i \in LibIds : /\ libraries[i].exists
                              /\ libraries[i].enabled
                              /\ Under(p, libraries[i].path)

\* C22: each run of the scheduled cleanup job performs cleanup_deleted_media
\* and then cleanup_transcode_files: when the job's run is over, one more
\* call of cleanup_transcode_files has been made.
C22_JobAlsoCleansTranscodeFiles ==
    [][IsCleanup => cleanup_runs' = cleanup_runs + 1]_vars

(***************************************************************************)
(* Properties of the transcoding orchestrator.                             *)
(***************************************************************************)
Settled(j) == tjobs[j].exists /\ tjobs[j].status \in TERMINAL

\* The job has been given a terminal status: its row carries one, or the
\* failed start marked it failed before the router deleted the row.
ReachedTerminal(j) ==
    \/ tjobs[j].exists /\ tjobs[j].status \in TERMINAL
    \/ start_pc[j] \in {"router_except", "failed"}

\* last_accessed_at is not older than max_age.
Fresh(j) == ~(tjobs[j].last_accessed_at < tclock - max_age_hours)

\* C3: once stop_job, called while the encoder was alive, has returned True
\* for a job, its encoder has exited and
\* the job's row, while it exists, has status cancelled.
C3_StopLeavesCancelled ==
    \A j \in TJobIds :
        (stop_pc[j] = "true" /\ q_sent[j]) =>
            /\ proc[j] \in Exited
            /\ (tjobs[j].exists => tjobs[j].status = "cancelled")

\* C8: after every completed cleanup_transcode_files run, no job that had
\* reached a terminal status has a working directory.
C8_CleanupRemovesTerminalDirs ==
    [][cleanup_runs' # cleanup_runs =>
          \A j \in TJobIds : ReachedTerminal(j) => j \notin dirs']_vars

\* C9: a cleanup_transcode_files run leaves the row and the directory of
\* every terminal job whose last_accessed_at is within max_age.
C9_CleanupKeepsFreshJobs ==
    [][cleanup_runs' # cleanup_runs =>
          \A j \in TJobIds :
              (tjobs[j].exists /\ tjobs[j].status \in TERMINAL /\ Fresh(j)) =>
                  /\ tjobs'[j] = tjobs[j]
                  /\ (j \in dirs => j \in dirs')]_vars

\* The job is running and its encoder has exited or was never spawned.
RunningWithoutEncoder(j) ==
    /\ tjobs[j].exists
    /\ tjobs[j].status = "running"
    /\ \/ proc[j] \in Exited
       \/ proc[j] = "none" /\ start_pc[j] = "except"

\* C10: no job id ever has more than one encoder process, and a running job
\* whose encoder has exited or was never spawned eventually has a terminal
\* status.
C10_OneEncoderAndNoOrphanRunning ==
    /\ [](\A j \in TJobIds : spawned[j] <= 1)
    /\ \A j \in TJobIds : RunningWithoutEncoder(j) ~> Settled(j)

C10_Witness ==
    \E j \in TJobIds :
        /\ spawned[j] = 1
        /\ proc[j] = "exit_err"
        /\ mon_pc[j] = "done"
        /\ stop_pc[j] = "none"
        /\ tjobs[j].exists
        /\ tjobs[j].status = "failed"
        /\ tjobs[j].error_message = "FFmpeg exited"

\* nobody has asked to stop job j
NotStopped(j) == stop_pc[j] \in {"none", "false"}

\* C23: when the monitor of a job that nobody stopped sees the encoder exit
\* with code 0, the job becomes completed with progress 100; when the encoder
\* exits non-zero or the monitor raises, the job becomes failed with a
\* non-empty error message; in both cases the monitor then removes the job
\* from the active-process table.
C23_MonitorOutcome ==
    [][\A j \in TJobIds :
          /\ (mon_pc[j] = "reading" /\ mon_pc'[j] = "marked" /\ NotStopped(j)) =>
                IF proc[j] = "exit0"
                THEN /\ tjobs'[j].status = "completed"
                     /\ tjobs'[j].progress_percent = 100
                ELSE /\ tjobs'[j].status = "failed"
                     /\ tjobs'[j].error_message # ""
          /\ (mon_pc[j] = "marked" /\ mon_pc'[j] # "marked") =>
                /\ mon_pc'[j] = "done"
                /\ j \notin active_jobs']_vars

\* the monitor of a job nobody stopped is done after an exit with code 0 that
\* followed a parsed progress line
C23_Witness ==
    \E j \in TJobIds :
        /\ mon_pc[j] = "done"
        /\ NotStopped(j)
        /\ proc[j] = "exit0"
        /\ tjobs[j].status = "completed"
        /\ tjobs[j].progress_percent = 100
        /\ tjobs[j].last_accessed_at > 1
        /\ j \notin active_jobs

\* C24: an I/O error on a single file during ingest (the file vanishes
\* between the enumeration and its stat) is skipped: with the library root in
\* place the scan does not abort with an exception and the job does not end
\* failed with it.
C24_FileErrorIsSkipped ==
    root_state = "dir" =>
        /\ scan.pc # "raised"
        /\ ~(/\ ScanJob \in DOMAIN job_states
              /\ job_states[ScanJob].status = "failed"
              /\ job_states[ScanJob].error = "FileNotFoundError")

\* the encoder of job j has exited right after the spawn, without a playlist:
\* inside the 0.1 s check of the full transcode, or before the remux start
\* has done anything with the process it registered
ExitedAtOnce(j) ==
    /\ proc[j] \in Exited
    /\ j \notin playlist
    /\ \/ start_pc[j] = "except"
       \/ tjobs[j].type = "remux" /\ start_pc[j] = "registered"

\* C25: for the full transcode and for the remux, when the encoder exits
\* immediately after being spawned the start is a failure: its next step is
\* the failure handling, it neither goes on to wait for the playlist nor
\* returns the playlist path to the caller.
C25_ImmediateExitFailsStart ==
    [][\A j \in TJobIds :
          (ExitedAtOnce(j) /\ start_pc'[j] # start_pc[j]) =>
              start_pc'[j] \notin {"waiting", "done"}]_vars

\* C26: a start returns the playlist path only if the playlist file exists
\* or the encoder is still alive when the readiness wait runs out; it does
\* not return the path for an encoder that has died without a playlist.
C26_PathOnlyWithPlaylistOrLiveEncoder ==
    [][\A j \in TJobIds :
          (start_pc[j] = "waiting" /\ start_pc'[j] = "done") =>
              (j \in playlist \/ proc[j] = "running")]_vars

\* a scan has returned that found no directory at the library root
ReturnedWithoutRoot ==
    Returned /\ scan.started_at # NULL /\ ~scan.root_ok

\* C27: a scan that finds the library root missing, or not a directory, at its
\* start returns all-zero stats and changes no MediaFile row: the database is
\* as it was when the scan started.
C27_NoRootNoChange ==
    ReturnedWithoutRoot =>
        /\ scan.stats = [new |-> 0, updated |-> 0, deleted |-> 0, restored |-> 0,
                         cancelled |-> FALSE]
        /\ db = scan.db_at_start
        /\ sess = db

\* such a scan has returned for a library with a live row and a soft-deleted one
C27_Witness ==
    /\ ReturnedWithoutRoot
    /\ root_state = "missing"
    /\ db[A1].exists /\ db[A1].deleted_at = NULL
    /\ db[B1].exists /\ db[B1].deleted_at # NULL

(***************************************************************************)
(* Properties of the playback decision.                                    *)
(***************************************************************************)
\* the decision has been taken
Decided == sb_info # <<>>

\* C28: whenever a resolution is requested (a requested_resolution that
\* carries a width or a height), the decision is a transcode to h264 video
\* and aac audio whose settings carry exactly the requested width and height
\* and are not remux-only, whatever the media file, the device profile and
\* the three enable flags are.
C28_ResolutionOverrideForcesTranscode ==
    (/\ Decided
     /\ sb_options.requested_resolution # <<>>
     /\ DOMAIN sb_options.requested_resolution[1] # {})
    => LET info == sb_info[1]
           requested == sb_options.requested_resolution[1]
       IN  /\ info.PlayMethod = "Transcode"
           /\ info.TranscodingVideoCodec = "h264"
           /\ info.TranscodingAudioCodec = "aac"
           /\ info.IsRemuxOnly = FALSE
           /\ info.TranscodeSettings # <<>>
           /\ info.TranscodeSettings[1].VideoCodec = "h264"
           /\ info.TranscodeSettings[1].AudioCodec = "aac"
           /\ info.TranscodeSettings[1].IsRemuxOnly = FALSE
           /\ info.TranscodeSettings[1].MaxWidth =
                  (IF "width" \in DOMAIN requested
                   THEN <<requested.width>> ELSE <<>>)
           /\ info.TranscodeSettings[1].MaxHeight =
                  (IF "height" \in DOMAIN requested
                   THEN <<requested.height>> ELSE <<>>)

\* a directly playable file was decided with a requested resolution while
\* direct play, direct stream and transcoding were all switched off
C28_Witness ==
    /\ Decided
    /\ sb_options.requested_resolution = <<[width |-> 1280, height |-> 720]>>
    /\ ~sb_options.enable_direct_play
    /\ ~sb_options.enable_direct_stream
    /\ ~sb_options.enable_transcoding
    /\ sb_media.video_tracks # <<>> /\ sb_media.audio_tracks # <<>>
    /\ check_direct_play(sb_profile, sb_media).can_play
    /\ sb_info[1].TranscodeSettings[1].MaxWidth = <<1280>>
    /\ sb_info[1].TranscodeSettings[1].MaxHeight = <<720>>

\* a comma-separated list, its entries stripped and lower-cased
ListedNames(list) ==
    LET parts == split(list, ",")
    IN  {lower(strip(parts[k])) : k \in 1..Len(parts)}

\* some DirectPlayProfile lists the container of the media file together
\* with the codecs of its first video track and its first audio track
ListedByOneProfile ==
    \E i \in 1..Len(sb_profile.DirectPlayProfiles) :
        LET profile == sb_profile.DirectPlayProfiles[i]
        IN  /\ lower(container_of(sb_media)) \in ListedNames(profile.Container)
            /\ lower(sb_media.video_tracks[1].codec)
                   \in ListedNames(profile.VideoCodec)
            /\ lower(sb_media.audio_tracks[1].codec)
                   \in ListedNames(profile.AudioCodec)

\* a required condition of a codec profile of the track's codec fails
RequiredConditionFails(track, track_type) ==
    \E i \in 1..Len(sb_profile.CodecProfiles) :
        LET p == sb_profile.CodecProfiles[i]
        IN  /\ p.Type = track_type
            /\ p.Codec = track.codec
            /\ \E k \in 1..Len(p.Conditions) :
                   /\ p.Conditions[k].IsRequired
                   /\ evaluate_condition(track, p.Conditions[k])

\* a decision for a file with a video and an audio track, with direct play
\* allowed and no resolution requested
DirectPlayTried ==
    /\ Decided
    /\ sb_options.enable_direct_play
    /\ sb_options.requested_resolution = <<>>
    /\ sb_media.video_tracks # <<>>
    /\ sb_media.audio_tracks # <<>>

\* C29: with direct play allowed and no resolution requested, the decision
\* is direct_play with the direct file URL and no transcode reason exactly
\* when one DirectPlayProfile lists the media's container together with the
\* codecs of its first video and first audio track (lists compared without
\* regard to case) and no required codec-profile condition fails; a file
\* whose combination no profile lists is never direct-played.
C29_DirectPlayIffListedByOneProfile ==
    DirectPlayTried =>
        ((/\ sb_info[1].PlayMethod = "DirectPlay"
          /\ sb_info[1].DirectStreamUrl = "/api/v1/stream/{id}"
          /\ sb_info[1].TranscodeReasons = <<>>)
         <=> (/\ ListedByOneProfile
              /\ ~RequiredConditionFails(sb_media.video_tracks[1], "Video")
              /\ ~RequiredConditionFails(sb_media.audio_tracks[1], "Audio")))

\* the first video track would remux (its codec passes the check against the
\* remux container) but the first audio track would not
VideoRemuxesAudioNot ==
    /\ sb_media.video_tracks # <<>>
    /\ sb_media.audio_tracks # <<>>
    /\ check_video_codec_support(sb_profile, sb_media.video_tracks[1],
                                 <<mp4>>).can_play
    /\ ~check_audio_codec_support(sb_profile, sb_media.audio_tracks[1],
                                  <<mp4>>).can_play

\* the audio codec is listed by no DirectPlayProfile for the remux container
AudioCodecNotListed ==
    check_audio_codec_support(sb_profile, sb_media.audio_tracks[1],
                              <<mp4>>).reasons = <<"AudioCodecNotSupported">>

\* C30: when no resolution is requested, neither direct play nor direct
\* stream applies (the decision is neither of them) and the first video track
\* would remux but the first audio track would not, the decision is a
\* transcode with video copy and audio aac of type audio-only whose reasons
\* contain audio_transcode_required, and audio_codec_not_supported too when
\* the audio codec is not listed by the profile.
C30_AudioOnlyFallback ==
    (/\ Decided
     /\ sb_options.requested_resolution = <<>>
     /\ sb_info[1].PlayMethod \notin {"DirectPlay", "DirectStream"}
     /\ VideoRemuxesAudioNot)
    => /\ sb_info[1].PlayMethod = "Transcode"
       /\ sb_info[1].TranscodingVideoCodec = "copy"
       /\ sb_info[1].TranscodingAudioCodec = "aac"
       /\ sb_info[1].TranscodingType = "audio-only"
       /\ In("AudioTranscodeRequired", sb_info[1].TranscodeReasons)
       /\ AudioCodecNotListed
              => In("AudioCodecNotSupported", sb_info[1].TranscodeReasons)

\* no step before the full transcode matched: no resolution was requested,
\* the decision is neither direct play nor direct stream nor the audio-only
\* transcode, and the audio-only transcode was not due either
NoEarlierStepMatched ==
    /\ Decided
    /\ sb_options.requested_resolution = <<>>
    /\ sb_info[1].PlayMethod \notin {"DirectPlay", "DirectStream"}
    /\ sb_info[1].TranscodingType # "audio-only"
    /\ LET ok == needs_audio_transcode(sb_profile, sb_media)
       IN  ~(ok.video_ok /\ ~ok.audio_ok)

\* C31: when transcoding is disallowed and no earlier step matched, the
\* decision is still a transcode and its transcode_reasons are the single
\* reason direct_play_error.
C31_DisallowedTranscodeSingleReason ==
    (NoEarlierStepMatched /\ ~sb_options.enable_transcoding)
    => /\ sb_info[1].PlayMethod = "Transcode"
       /\ sb_info[1].TranscodeReasons = <<"DirectPlayError">>

\* the conditions of the codec profiles that match the track, in the order
\* in which they are evaluated
RECURSIVE FlatConditions(_, _, _)
FlatConditions(profiles, codec, track_type) ==
    IF profiles = <<>> THEN <<>>
    ELSE (IF Head(profiles).Type = track_type /\ Head(profiles).Codec = codec
          THEN Head(profiles).Conditions ELSE <<>>)
         \o FlatConditions(Tail(profiles), codec, track_type)

\* the mapped reasons of the failed conditions among the first n
RECURSIVE FailedReasons(_, _, _)
FailedReasons(track, conditions, n) ==
    IF n = 0 THEN <<>>
    ELSE FailedReasons(track, conditions, n - 1)
         \o (IF evaluate_condition(track, conditions[n])
             THEN condition_to_transcode_reason(conditions[n].Property)
             ELSE <<>>)

\* what the claim says of the codec check of one track
ConditionsEvaluatedAsStated(track, track_type) ==
    LET conditions ==
            FlatConditions(sb_profile.CodecProfiles, track.codec, track_type)
        result == check_codec_constraints(sb_profile.CodecProfiles, track,
                                          track.codec, track_type)
        blocking == {k \in 1..Len(conditions) :
                        /\ conditions[k].IsRequired
                        /\ evaluate_condition(track, conditions[k])}
        unknown == {k \in 1..Len(conditions) :
                       get_track_property_value(
                           track, conditions[k].Property) = <<>>}
    IN  /\ blocking # {} =>
               LET first == CHOOSE k \in blocking :
                                \A m \in blocking : k <= m
               IN  /\ ~result.can_play
                   /\ result.reasons = FailedReasons(track, conditions, first)
        /\ blocking = {} =>
               /\ result.can_play
               /\ result.reasons =
                      FailedReasons(track, conditions, Len(conditions))
        /\ unknown = 1..Len(conditions) =>
               /\ result.can_play
               /\ result.reasons = <<>>

NamesHdr(attribute) ==
    /\ attribute # <<>>
    /\ \E indicator \in {bt2020, rec2020, smpte2084, arib_std_b67, hlg} :
           Contains(indicator, lower(attribute[1]))

\* C33: the VideoRange used in condition evaluation is HDR exactly when the
\* colour primaries, the colour transfer or the colour space of the track
\* contains one of bt2020, rec2020, smpte2084, arib-std-b67, hlg, and SDR
\* otherwise; the evaluation yields one of the two values, never an error,
\* also for a track where some or all of the attributes are NULL.
C33_VideoRangeFromColourMetadata ==
    vr_value # <<>> =>
        /\ vr_value[1] \in {"HDR", "SDR"}
        /\ vr_value[1] = "HDR"
               <=> \/ NamesHdr(vr_track.color_primaries)
                   \/ NamesHdr(vr_track.color_transfer)
                   \/ NamesHdr(vr_track.color_space)

(***************************************************************************)
(* Properties of the execution history.                                    *)
(***************************************************************************)
\* C34: the execution history is a bounded ring buffer: every submitted
\* event appends exactly one record (a running one, as the newest), the
\* buffer never holds more than its capacity of 100 records, a full buffer
\* evicts its oldest record and keeps the others, and get_job_history
\* returns the retained records most recent first.
C34_HistoryIsBoundedRing ==
    [][LET old == job_execution_history
           new == job_execution_history'
       IN  /\ Len(new) <= history_maxlen
           /\ submitted_events' # submitted_events =>
                  /\ new[Len(new)].status = "running"
                  /\ new[Len(new)].started_at = submitted_events'
                  /\ IF Len(old) < history_maxlen
                     THEN /\ Len(new) = Len(old) + 1
                          /\ \A i \in 1..Len(old) : new[i] = old[i]
                     ELSE /\ Len(new) = history_maxlen
                          /\ \A i \in 1..(history_maxlen - 1) : new[i] = old[i + 1]
           /\ history_view' # history_view =>
                  /\ Len(history_view') = Len(old)
                  /\ {history_view'[i] : i \in 1..Len(old)}
                         = {old[i] : i \in 1..Len(old)}
                  /\ \A i, k \in 1..Len(old) :
                         i < k => history_view'[i].started_at
                                      > history_view'[k].started_at]_vars

\* the history was read after the buffer had become full and had evicted
\* its first three records
C34_Witness ==
    /\ submitted_events = history_maxlen + 3
    /\ Len(job_execution_history) = history_maxlen
    /\ job_execution_history[1].started_at = 4
    /\ Len(history_view) = history_maxlen
    /\ history_view[1].started_at = submitted_events
    /\ history_view[history_maxlen].started_at = 4

(***************************************************************************)
(* Properties of scans of neighbouring and overlapping libraries.          *)
(***************************************************************************)
\* C35: a scan of the library at LibRoot never soft-deletes a MediaFile that
\* lies outside the root directory, also when the file lies in a directory
\* whose path merely starts with the root path (root /m, file /m2/x.mp4).
C35_ReapStaysInsideRoot ==
    [][\A p \in DbPaths :
          (/\ db[p].exists
           /\ db[p].deleted_at = NULL
           /\ db'[p].deleted_at # NULL)
          => Under(p, LibRoot)]_vars

(***************************************************************************)
(* Interleaved scans                                                       *)
(***************************************************************************)
\* the scan has ingested the file: it collected it and committed its rows
IngestedBy(s, p) ==
    /\ lib_scans[s].pc \in {"ingested", "returned"}
    /\ p \in lib_scans[s].scanned_paths

\* C36: when two scans whose roots are the same or nested run interleaved,
\* a file that is on disk and was ingested by one scan is never left
\* soft-deleted by the reap pass of the other scan.
C36_IngestedFileNotReapedByOtherScan ==
    \A p \in DbPaths :
        (p \in lib_disk /\ \E s \in ScanJobs : IngestedBy(s, p))
            => mediafiles[p].deleted_at = NULL

(***************************************************************************)
(* Terminal states of a TranscodingJob                                     *)
(***************************************************************************)
\* C37: once the status of a TranscodingJob is completed, failed or
\* cancelled, no later write (stop_job, the progress monitor, a start
\* failure handler) changes it to a different status.
C37_TerminalStatusIsAbsorbing ==
    [][\A j \in TJobIds :
          (Settled(j) /\ tjobs'[j].exists)
              => tjobs'[j].status = tjobs[j].status]_vars

(***************************************************************************)
(* The cancellation flag of a JobState                                     *)
(***************************************************************************)
\* C38: the cancellation flag is set only while a job is running: whenever
\* the status of a job is pending, success, failed or cancelled its
\* cancellation_requested is false, and every submitted event of a job id
\* leaves cancellation_requested false.
C38_FlagOnlyWhileRunning ==
    [][\A j \in DOMAIN job_states' :
          /\ job_states'[j].status # "running"
                => ~job_states'[j].cancellation_requested
          /\ (j = ScanJob /\ runs' # runs)
                => ~job_states'[j].cancellation_requested]_vars

(***************************************************************************)
(* JobState and the most recent execution record                           *)
(***************************************************************************)
\* the record status that corresponds to a JobState status
RecordStatusFor(status) ==
    IF status = "success" THEN "completed" ELSE status

\* C39: whenever a job is not running, the most recent execution record of
\* its job id is closed (not running) and its status corresponds to the
\* status of the JobState: completed with success, failed with failed,
\* cancelled with cancelled.
C39_LastRecordMatchesState ==
    \A j \in DOMAIN job_states :
        (job_states[j].status # "running" /\ LastRecord(j) # 0) =>
            /\ history[LastRecord(j)].status # "running"
            /\ job_states[j].status \in {"success", "failed", "cancelled"} =>
                  history[LastRecord(j)].status =
                      RecordStatusFor(job_states[j].status)
====
